---- MODULE Spec2Model ----
(***************************************************************************)
(* A model of the S-box explorer front end (static/js/main.js).           *)
(*                                                                         *)
(* Conventions.                                                            *)
(*  - A JavaScript array is a function over 0..len-1; a missing element    *)
(*    (a hole, or an index past the end) reads as Undefined.               *)
(*  - A string is a sequence of UTF-16 code units (what charCodeAt and     *)
(*    String.fromCharCode work on): "A" is <<65>>.                         *)
(*  - A metric value is a decimal number held exactly, in units of 10^-5:  *)
(*    0.5 is 50000, 112 is 11200000.  Binary floating point rounding is    *)
(*    not modelled.                                                        *)
(*  - The services behind /encrypt-text, /decrypt-text, the image routes   *)
(*    and /upload-custom-sbox are not part of main.js; they are modelled   *)
(*    from their specification.                                            *)
(*                                                                         *)
(* Specifications.                                                         *)
(*  - SpecExplore: the exploration view with its live doCrypto.            *)
(*  - SpecTable: the two inverse derivations on tables of every kind.      *)
(*  - SpecCompare: the comparison of an uploaded table with a candidate.   *)
(*  - SpecText: the text encryption tab, one request at a time.            *)
(*  - SpecCustom: upload, save and clear of the custom table.              *)
(*  - SpecSource: the table each text or image request goes out with.      *)
(*  - SpecOverlap: text and image requests overlapping freely.             *)
(*  - SpecSettle: the same handlers with every fetch settling.             *)
(*  - SpecRepeat: comparisons repeated between uploads and selections.     *)
(*  - SpecRound: the comparison on values differing past four decimals.    *)
(*  - SpecStatus: the server status modal and its refresh timer.           *)
(*  - An await splits a handler into its part up to the fetch, the answer  *)
(*    (or the thrown fetch) and its part after; alertMessage is the alert  *)
(*    raised by the last step.                                             *)
(***************************************************************************)
EXTENDS Integers, Sequences, FiniteSets, TLC

\* ------------------------------------------------------------------ bounds

\* Longest text typed into the exploration view's input field.
MaxTextLen == 3
\* Largest additive shift of the affine tables fed to the inverse derivation.
MaxShift == 12
\* Longest plaintext typed into the text tab.
MaxPlainLen == 16
\* Most uploads of a custom table between two page loads.
MaxUploads == 2
\* Most image requests on their way at once.
MaxImageRequests == 2
\* Last instant the clock reaches.
MaxClock == 3

\* The status modal is opened at most MaxIntervals times, and at most
\* MaxStatusFetches status requests await an answer at a time.
MaxIntervals == 3
MaxStatusFetches == 2

\* ------------------------------------------------------- program constants

\* The byte range: the loops of generateInverseSBox run i = 0 .. 255.
TableSize == 256
\* The fewest hex digits decryptTextEnhanced takes for a ciphertext.
MinCipherHexLength == 32

\* JavaScript's undefined where a number is expected, and null where an
\* object is.
Undefined == 0 - 1
Null == [isNull |-> TRUE]

\* ------------------------------------------------------------ array helpers

\* arr[i] in JavaScript: undefined outside the array.
Get(arr, i) == IF i \in DOMAIN arr THEN arr[i] ELSE Undefined

\* The length of an array held as a function over 0..len-1.
ArrLen(arr) == Cardinality(DOMAIN arr)

\* ---------------------------------------------------------------- tables

\* forward[i] = (a*i + b) mod 256: a permutation of 0..255 exactly when a is odd.
AffineTable(a, b) == [i \in 0..(TableSize - 1) |-> (a * i + b) % TableSize]

IdentityTable == AffineTable(1, 0)

\* The identity with bytes x and y exchanged.
SwapTable(x, y) ==
    [i \in 0..(TableSize - 1) |-> IF i = x THEN y ELSE IF i = y THEN x ELSE i]

\* forward[i] = 255 - i.
ReverseTable == [i \in 0..(TableSize - 1) |-> (TableSize - 1) - i]

\* A table is a bijection on 0..255: 256 entries, each a byte, no value twice.
IsBijective(t) ==
    /\ DOMAIN t = 0..(TableSize - 1)
    /\ \A i \in DOMAIN t : t[i] \in 0..(TableSize - 1)
    /\ \A i, j \in DOMAIN t : t[i] = t[j] => i = j

\* Tables that are not bijections: a repeated value (forward[3] = forward[7] = 10),
\* a table one entry short, and a table with a value outside 0..255.
DuplicateTable == [IdentityTable EXCEPT ![3] = 10, ![7] = 10]
ShortTable == [i \in 0..(TableSize - 2) |-> i]
OutOfRangeTable == [IdentityTable EXCEPT ![0] = TableSize]
InvalidTables == {DuplicateTable, ShortTable, OutOfRangeTable}

\* The permutations the inverse derivation is exercised on.
PermutationTables ==
    {AffineTable(a, b) : a \in {1, 3, 5, 7, 255}, b \in 0..MaxShift}
        \cup {ReverseTable, SwapTable(5, 9), SwapTable(0, 255)}

\* -------------------------------------------------- generateInverseSBox

\* The loop  for (i = 0; i < 256; i++) inv[sbox[i]] = i  run on the array
\* `initial`.  The writes go in ascending i, so an element ends holding the last
\* i that wrote it, and one no i wrote keeps its initial value; a write past
\* the end grows the array, the gap being holes, and a write under the key
\* undefined, which is what sbox[i] is past the end of a short table, touches
\* no element.
InverseLoop(sbox, initial) ==
    LET keys == {Get(sbox, i) : i \in 0..(TableSize - 1)}
        indices == {k \in keys : k >= 0}
        writers(k) == {i \in 0..(TableSize - 1) : Get(sbox, i) = k}
        last(k) == CHOOSE i \in writers(k) : \A j \in writers(k) : j <= i
    IN [k \in (DOMAIN initial) \cup UNION {0..m : m \in indices} |->
           IF k \in indices THEN last(k)
           ELSE IF k \in DOMAIN initial THEN initial[k] ELSE Undefined]

\* A slip in the loop: the table is copied instead of inverted (inv[i] = sbox[i]).
generateInverseSBoxCopies(sbox) ==
    [i \in 0..(TableSize - 1) |-> Get(sbox, i)]

\* generateInverseSBox: new Array(256), every element a hole, then the loop.
generateInverseSBox(sbox) ==
    InverseLoop(sbox, [i \in 0..(TableSize - 1) |-> Undefined])

\* generateInverseSBoxFromArray: new Array(256).fill(0), then the same loop.
generateInverseSBoxFromArray(sbox) ==
    InverseLoop(sbox, [i \in 0..(TableSize - 1) |-> 0])

\* ------------------------------------------------------------- hex digits

\* One hexadecimal digit as an upper-case character: '0'..'9' are 48..57,
\* 'A'..'F' are 65..70.
HexDigit(d) == IF d < 10 THEN 48 + d ELSE 55 + d

\* b.toString(16).toUpperCase().padStart(2, '0')
ByteToHex(b) == <<HexDigit(b \div 16), HexDigit(b % 16)>>

\* bytes.map(b => hex(b)).join(''): two digits a byte.
BytesToHex(bytes) ==
    [k \in 1..(2 * Len(bytes)) |-> ByteToHex(bytes[(k + 1) \div 2])[2 - (k % 2)]]

\* ---------------------------------------------------------------- catalog

\* window.APP_DATA: the candidates the server ships with the page.  Index 1 is
\* the proposed candidate K44, which both views select on load.
candidatesData ==
    [i \in 0..3 |->
        CASE i = 0 -> [id |-> "AES", type |-> "standard", sbox |-> AffineTable(7, 99)]
          [] i = 1 -> [id |-> "K44", type |-> "proposed", sbox |-> ReverseTable]
          [] i = 2 -> [id |-> "G1", type |-> "generated", sbox |-> SwapTable(5, 9)]
          [] OTHER -> [id |-> "G2", type |-> "generated", sbox |-> AffineTable(1, 1)]]

CandidateIdx == DOMAIN candidatesData

\* candidatesData.findIndex(c => c.id === 'K44'), or 0 when there is none.
InitialIdx ==
    IF \E i \in CandidateIdx : candidatesData[i].id = "K44"
    THEN CHOOSE i \in CandidateIdx :
             /\ candidatesData[i].id = "K44"
             /\ \A j \in CandidateIdx : candidatesData[j].id = "K44" => i <= j
    ELSE 0

VARIABLES
    \* the table functions on their own
    table, inverse, inverseFromArray,
    \* the exploration view
    currentData, inverseSBox, inputPlain, outCipher, outDec,
    \* the custom S-box comparison
    uploadedCustomSbox, existingMetrics, compareSboxSelector, sboxComparisonResults,
    \* persistent storage and the text encryption tab
    customSboxData, savedCustomSbox,
    useCustomSboxForText, selectedTextEncryptData, selectedEncryptData,
    textInputPlain, cipherBytesData, originalLengthData,
    lastCipherHex, lastOriginalLength, lastDecryptedText,
    encryptTextBtnDisabled, decryptTextBtnDisabled, encryptFetch, decryptFetch,
    \* what the text tab shows, and the alert the last step raised
    outputLabel, outputResult, alertMessage,
    \* the custom S-box upload
    uploads, statusTitle, statusMessage, customSboxResults, customOption, clock,
    \* the image encryption tab
    useCustomSboxForImage, selectedImageEncryptData, uploadedImageFile,
    encryptImageBtnDisabled, decryptImageBtnDisabled, imageFetches, resultLabel,
    \* the comparisons made so far, kept to tell repeated ones apart
    comparisonHistory,
    \* the server status modal: its 'hidden' class, the timer id the script
    \* holds, the interval timers the browser runs, the number of setInterval
    \* calls so far, the status requests awaiting an answer, the content panel
    \* shown in place of the loading panel, the colour class last put on the
    \* navbar indicator
    serverStatusModalHidden, statusRefreshInterval, activeIntervals, intervalsCreated,
    statusFetches, statusContentShown, navStatusIndicator

tableVars == <<table, inverse, inverseFromArray>>
exploreVars == <<currentData, inverseSBox, inputPlain, outCipher, outDec>>
compareVars ==
    <<uploadedCustomSbox, existingMetrics, compareSboxSelector, sboxComparisonResults,
      comparisonHistory>>
storageVars == <<customSboxData, savedCustomSbox>>
selectionVars == <<useCustomSboxForText, selectedTextEncryptData, selectedEncryptData>>
resultVars ==
    <<cipherBytesData, originalLengthData, lastCipherHex, lastOriginalLength,
      lastDecryptedText>>
fetchVars == <<encryptTextBtnDisabled, decryptTextBtnDisabled, encryptFetch, decryptFetch>>
displayVars == <<outputLabel, outputResult>>
customVars ==
    <<uploads, statusTitle, statusMessage, customSboxResults, customOption, clock>>
imageVars ==
    <<useCustomSboxForImage, selectedImageEncryptData, uploadedImageFile,
      encryptImageBtnDisabled, decryptImageBtnDisabled, imageFetches, resultLabel>>
pageVars == <<customVars, imageVars>>
textVars ==
    <<storageVars, selectionVars, textInputPlain, resultVars, fetchVars, displayVars,
      pageVars>>
modalVars ==
    <<serverStatusModalHidden, statusRefreshInterval, activeIntervals, intervalsCreated,
      statusFetches, statusContentShown, navStatusIndicator>>
vars == <<tableVars, exploreVars, compareVars, textVars, modalVars, alertMessage>>

\* The status modal as the page loads: hidden, no timer set (let
\* statusRefreshInterval = null), the loading panel in place.
NoInterval == 0
StatusModalInit ==
    /\ serverStatusModalHidden = TRUE
    /\ statusRefreshInterval = NoInterval
    /\ activeIntervals = {}
    /\ intervalsCreated = 0
    /\ statusFetches = 0
    /\ statusContentShown = FALSE
    /\ navStatusIndicator = ""

\* No alert: the value of alertMessage after a step that raised none.
NoAlert == <<>>

\* ------------------------------------------- the custom S-box comparison

\* Math.abs(x - 0.5), the target of the 'closer_to_0.5' comparison.
Target == 50000

Abs(x) == IF x < 0 THEN 0 - x ELSE x

\* v.toFixed(4) read back by parseFloat: v rounded to four decimals.
toFixed4(v) == ((v + 5) \div 10) * 10

\* x || 0: zero for a missing value and for zero itself.
OrZero(x) == IF x = Undefined \/ x = 0 THEN 0 ELSE x

\* The metric payload the upload service returns for a custom table.
CustomPayloads ==
    [nonlinearity : {10000000, 11200000},
     sac : {49000, 51000, 52000},
     bic : {49000, 52000},
     lap : {5000, 6250},
     dap : {1560, 2340},
     fixed_points : {0, 200000}]

\* The metric payload of a catalog candidate: the ten keys.
ExistingPayloads ==
    [NL : {10000000, 11200000},
     SAC : {49000, 51000, 52000},
     BIC_NL : {10300000},
     BIC_SAC : {49000, 52000},
     LAP : {5000, 6250},
     DAP : {1560, 2340},
     DU : {400000},
     AD : {700000},
     TO : {0, 200000, 785000},
     CI : {0}]

\* renderComparisonRow with the 'lower' rows judged like 'higher' ones: the
\* greater value takes the trophy.
renderComparisonRowLowerInverted(label, customVal, existingVal, compareType) ==
    LET customBetter ==
            CASE compareType \in {"higher", "lower"} -> customVal > existingVal
              [] compareType = "closer_to_0.5" ->
                    Abs(customVal - Target) < Abs(existingVal - Target)
              [] OTHER -> FALSE
        existingBetter ==
            /\ ~customBetter
            /\ CASE compareType \in {"higher", "lower"} -> existingVal > customVal
                 [] compareType = "closer_to_0.5" ->
                       Abs(existingVal - Target) < Abs(customVal - Target)
                 [] OTHER -> FALSE
    IN [label |-> label, customVal |-> customVal, existingVal |-> existingVal,
        compareType |-> compareType,
        customBetter |-> customBetter, existingBetter |-> existingBetter]

\* renderComparisonRow with a non-strict test on the custom side: a tie on a
\* 'higher' or 'lower' row marks the custom value as the better one.
renderComparisonRowNonStrict(label, customVal, existingVal, compareType) ==
    LET customBetter ==
            CASE compareType = "higher" -> customVal >= existingVal
              [] compareType = "lower" -> customVal <= existingVal
              [] compareType = "closer_to_0.5" ->
                    Abs(customVal - Target) < Abs(existingVal - Target)
              [] OTHER -> FALSE
        existingBetter ==
            CASE compareType = "higher" -> existingVal > customVal
              [] compareType = "lower" -> existingVal < customVal
              [] compareType = "closer_to_0.5" ->
                    Abs(existingVal - Target) < Abs(customVal - Target)
              [] OTHER -> FALSE
    IN [label |-> label, customVal |-> customVal, existingVal |-> existingVal,
        compareType |-> compareType,
        customBetter |-> customBetter, existingBetter |-> existingBetter]

\* renderComparisonRow: the row's two values and which of them carries the
\* trophy.  existingBetter is only looked at when customBetter came out false
\* (the else-if).
renderComparisonRow(label, customVal, existingVal, compareType) ==
    LET customBetter ==
            CASE compareType = "higher" -> customVal > existingVal
              [] compareType = "lower" -> customVal < existingVal
              [] compareType = "closer_to_0.5" ->
                    Abs(customVal - Target) < Abs(existingVal - Target)
              [] OTHER -> FALSE
        existingBetter ==
            /\ ~customBetter
            /\ CASE compareType = "higher" -> existingVal > customVal
                 [] compareType = "lower" -> existingVal < customVal
                 [] compareType = "closer_to_0.5" ->
                       Abs(existingVal - Target) < Abs(customVal - Target)
                 [] OTHER -> FALSE
    IN [label |-> label, customVal |-> customVal, existingVal |-> existingVal,
        compareType |-> compareType,
        customBetter |-> customBetter, existingBetter |-> existingBetter]

\* The handler's rows with the LAP and DAP calls exchanged.
ComparisonRowCallsReordered(customMetrics, exMetrics) ==
    << [customKey |-> "nonlinearity", existingKey |-> "NL",
        row |-> renderComparisonRow("Nonlinearity", customMetrics.nonlinearity,
                                    exMetrics.NL, "higher")],
       [customKey |-> "sac", existingKey |-> "SAC",
        row |-> renderComparisonRow("SAC", toFixed4(customMetrics.sac),
                                    toFixed4(exMetrics.SAC), "closer_to_0.5")],
       [customKey |-> "bic", existingKey |-> "BIC_SAC",
        row |-> renderComparisonRow("BIC", toFixed4(customMetrics.bic),
                                    toFixed4(exMetrics.BIC_SAC), "closer_to_0.5")],
       [customKey |-> "dap", existingKey |-> "DAP",
        row |-> renderComparisonRow("DAP", toFixed4(customMetrics.dap),
                                    toFixed4(exMetrics.DAP), "lower")],
       [customKey |-> "lap", existingKey |-> "LAP",
        row |-> renderComparisonRow("LAP", toFixed4(customMetrics.lap),
                                    toFixed4(exMetrics.LAP), "lower")],
       [customKey |-> "fixed_points", existingKey |-> "TO",
        row |-> renderComparisonRow("Fixed Points", customMetrics.fixed_points,
                                    OrZero(exMetrics.TO), "lower")] >>

\* The six renderComparisonRow calls of the compare button's handler, in the
\* order the handler makes them.  customKey and existingKey name the payload
\* fields each call reads.
ComparisonRowCalls(customMetrics, exMetrics) ==
    << [customKey |-> "nonlinearity", existingKey |-> "NL",
        row |-> renderComparisonRow("Nonlinearity", customMetrics.nonlinearity,
                                    exMetrics.NL, "higher")],
       [customKey |-> "sac", existingKey |-> "SAC",
        row |-> renderComparisonRow("SAC", toFixed4(customMetrics.sac),
                                    toFixed4(exMetrics.SAC), "closer_to_0.5")],
       [customKey |-> "bic", existingKey |-> "BIC_SAC",
        row |-> renderComparisonRow("BIC", toFixed4(customMetrics.bic),
                                    toFixed4(exMetrics.BIC_SAC), "closer_to_0.5")],
       [customKey |-> "lap", existingKey |-> "LAP",
        row |-> renderComparisonRow("LAP", toFixed4(customMetrics.lap),
                                    toFixed4(exMetrics.LAP), "lower")],
       [customKey |-> "dap", existingKey |-> "DAP",
        row |-> renderComparisonRow("DAP", toFixed4(customMetrics.dap),
                                    toFixed4(exMetrics.DAP), "lower")],
       [customKey |-> "fixed_points", existingKey |-> "TO",
        row |-> renderComparisonRow("Fixed Points", customMetrics.fixed_points,
                                    OrZero(exMetrics.TO), "lower")] >>

\* One if / else-if pair of generateComparisonSummary: who gets the point.
SummaryHigher(customVal, existingVal) ==
    IF customVal > existingVal THEN "custom"
    ELSE IF existingVal > customVal THEN "existing" ELSE "none"

\* SummaryLower with a plain else for the second branch: a tie is a point for
\* the existing candidate.
SummaryLowerElse(customVal, existingVal) ==
    IF customVal < existingVal THEN "custom" ELSE "existing"

SummaryLower(customVal, existingVal) ==
    IF customVal < existingVal THEN "custom"
    ELSE IF existingVal < customVal THEN "existing" ELSE "none"

SummaryCloser(customVal, existingVal) ==
    LET customDiff == Abs(customVal - Target)
        existingDiff == Abs(existingVal - Target)
    IN IF customDiff < existingDiff THEN "custom"
       ELSE IF existingDiff < customDiff THEN "existing" ELSE "none"

\* The five comparisons of generateComparisonSummary, in the order it makes them.
SummarySteps(customMetrics, exMetrics) ==
    << [metric |-> "Nonlinearity", customKey |-> "nonlinearity", existingKey |-> "NL",
        winner |-> SummaryHigher(customMetrics.nonlinearity, exMetrics.NL)],
       [metric |-> "SAC", customKey |-> "sac", existingKey |-> "SAC",
        winner |-> SummaryCloser(customMetrics.sac, exMetrics.SAC)],
       [metric |-> "LAP", customKey |-> "lap", existingKey |-> "LAP",
        winner |-> SummaryLower(customMetrics.lap, exMetrics.LAP)],
       [metric |-> "DAP", customKey |-> "dap", existingKey |-> "DAP",
        winner |-> SummaryLower(customMetrics.dap, exMetrics.DAP)],
       [metric |-> "Fixed Points", customKey |-> "fixed_points", existingKey |-> "TO",
        winner |-> SummaryLower(customMetrics.fixed_points, OrZero(exMetrics.TO))] >>

\* The counters, the verdict line and the detail list built from the steps:
\* customWins++ / existingWins++ and details.push(...) in each branch taken.
SummaryOf(steps) ==
    LET customWins == Cardinality({k \in DOMAIN steps : steps[k].winner = "custom"})
        existingWins == Cardinality({k \in DOMAIN steps : steps[k].winner = "existing"})
        taken(step) == step.winner # "none"
    IN [customWins |-> customWins,
        existingWins |-> existingWins,
        overall |-> IF customWins > existingWins THEN "custom"
                    ELSE IF existingWins > customWins THEN "existing"
                    ELSE "balanced",
        details |-> SelectSeq(steps, taken)]

generateComparisonSummary(customMetrics, exMetrics) ==
    SummaryOf(SummarySteps(customMetrics, exMetrics))

\* compareSboxSelector 'change': an entry of window.sboxDataStore is chosen.
CompareSelectorChange ==
    /\ compareSboxSelector = Undefined
    /\ compareSboxSelector' = 0
    /\ UNCHANGED <<uploadedCustomSbox, existingMetrics, sboxComparisonResults>>
    /\ UNCHANGED comparisonHistory
    /\ UNCHANGED <<modalVars, tableVars, exploreVars, textVars>>
    /\ alertMessage' = NoAlert

\* window.sboxDataStore[index].metrics: the payloads the catalog candidates
\* come with.
CandidateMetrics ==
    [idx \in CandidateIdx |->
        [NL |-> IF idx = 0 THEN 11200000 ELSE 10000000 + idx * 200000,
         SAC |-> IF idx = 1 THEN 49000 ELSE 52000,
         BIC_NL |-> 10300000,
         BIC_SAC |-> 49000,
         LAP |-> 6250,
         DAP |-> IF idx = 2 THEN 2340 ELSE 1560,
         DU |-> 400000,
         AD |-> 700000,
         TO |-> IF idx = 0 THEN 0 ELSE 785000,
         CI |-> 0]]

\* compareSboxSelector 'change' to a candidate: the click that follows reads
\* this entry of window.sboxDataStore.
CompareSelectorPick(value) ==
    /\ compareSboxSelector' = value
    /\ existingMetrics' = CandidateMetrics[value]
    /\ UNCHANGED <<uploadedCustomSbox, sboxComparisonResults, comparisonHistory>>
    /\ UNCHANGED <<modalVars, tableVars, exploreVars, textVars>>
    /\ alertMessage' = NoAlert

\* A click that keeps the summary of the comparison already shown and
\* renders only the rows again.
CompareClickKeepsSummary ==
    /\ uploadedCustomSbox # Null
    /\ compareSboxSelector # Undefined
    /\ sboxComparisonResults' =
           [rows |-> ComparisonRowCalls(uploadedCustomSbox.metrics, existingMetrics),
            summary |->
                IF sboxComparisonResults # Null THEN sboxComparisonResults.summary
                ELSE generateComparisonSummary(uploadedCustomSbox.metrics,
                                               existingMetrics)]
    /\ comparisonHistory' =
           comparisonHistory \cup
               {[customMetrics |-> uploadedCustomSbox.metrics,
                 existingMetrics |-> existingMetrics,
                 results |-> sboxComparisonResults',
                 at |-> clock]}
    /\ UNCHANGED <<uploadedCustomSbox, existingMetrics, compareSboxSelector>>
    /\ UNCHANGED <<modalVars, tableVars, exploreVars, textVars>>
    /\ alertMessage' = NoAlert

\* compareSboxBtn 'click'
CompareClick ==
    /\ uploadedCustomSbox # Null
    /\ compareSboxSelector # Undefined
    /\ sboxComparisonResults' =
           [rows |-> ComparisonRowCalls(uploadedCustomSbox.metrics, existingMetrics),
            summary |-> generateComparisonSummary(uploadedCustomSbox.metrics,
                                                  existingMetrics)]
    /\ comparisonHistory' =
           comparisonHistory \cup
               {[customMetrics |-> uploadedCustomSbox.metrics,
                 existingMetrics |-> existingMetrics,
                 results |-> sboxComparisonResults',
                 at |-> clock]}
    /\ UNCHANGED <<uploadedCustomSbox, existingMetrics, compareSboxSelector>>
    /\ UNCHANGED <<modalVars, tableVars, exploreVars, textVars>>
    /\ alertMessage' = NoAlert

\* The comparison idle.
CompareIdle ==
    /\ uploadedCustomSbox = Null
    /\ existingMetrics = Null
    /\ compareSboxSelector = Undefined
    /\ sboxComparisonResults = Null
    /\ comparisonHistory = {}

\* ------------------------------------------------- the exploration view

\* The placeholder both output panes show for an empty input.
Placeholder == <<0 - 1>>

\* The characters typed: 'A', U+00E9, U+00FF, U+0100 and the euro sign U+20AC.
TypedChars == {65, 233, 255, 256, 8364}

RECURSIVE TextsUpTo(_)
TextsUpTo(n) ==
    IF n = 0 THEN {<<>>}
    ELSE LET shorter == TextsUpTo(n - 1)
         IN shorter \cup {Append(t, c) : t \in {s \in shorter : Len(s) = n - 1},
                                          c \in TypedChars}

\* String.fromCharCode(x): the code unit x mod 2^16; undefined becomes NaN, then 0.
fromCharCode(x) == IF x < 0 THEN 0 ELSE x % 65536

\* doCrypto's encryption: txt.split('').map(c => currentData.sbox[c.charCodeAt(0) % 256])
doCryptoCipher(sbox, txt) == [k \in 1..Len(txt) |-> Get(sbox, txt[k] % TableSize)]

\* doCrypto's decryption: ciph.map(b => String.fromCharCode(inverseSBox[b])).join('')
doCryptoDecrypted(inv, ciph) == [k \in 1..Len(ciph) |-> fromCharCode(Get(inv, ciph[k]))]

\* doCrypto, as the pair of panes it leaves behind.
doCrypto(sbox, inv, txt) ==
    IF txt = <<>>
    THEN [cipher |-> Placeholder, dec |-> Placeholder]
    ELSE LET ciph == doCryptoCipher(sbox, txt)
         IN [cipher |-> BytesToHex(ciph),
             dec |-> doCryptoDecrypted(inv, ciph)]

\* generateInverseSBox(candidatesData[idx].sbox), worked out once a candidate.
InverseOfCandidate ==
    [idx \in CandidateIdx |-> generateInverseSBox(candidatesData[idx].sbox)]

\* updateUI that selects the candidate and leaves the inverse table as it is.
updateUIKeepsInverse(idx) ==
    LET out == doCrypto(candidatesData[idx].sbox, inverseSBox, inputPlain)
    IN /\ currentData' = idx
       /\ outCipher' = out.cipher
       /\ outDec' = out.dec
       /\ UNCHANGED <<inputPlain, inverseSBox>>

\* updateUI(idx): select the candidate, derive its inverse, run doCrypto.
updateUI(idx) ==
    LET inv == InverseOfCandidate[idx]
        out == doCrypto(candidatesData[idx].sbox, inv, inputPlain)
    IN /\ currentData' = idx
       /\ inverseSBox' = inv
       /\ outCipher' = out.cipher
       /\ outDec' = out.dec
       /\ UNCHANGED inputPlain

\* els.selector 'change'
SelectorChange(idx) ==
    /\ updateUI(idx)
    /\ UNCHANGED <<modalVars, tableVars, compareVars, textVars>>
    /\ alertMessage' = NoAlert

\* keydown ArrowLeft outside an input field
KeyArrowLeft ==
    /\ currentData > 0
    /\ updateUI(currentData - 1)
    /\ UNCHANGED <<modalVars, tableVars, compareVars, textVars>>
    /\ alertMessage' = NoAlert

\* keydown ArrowRight outside an input field
KeyArrowRight ==
    /\ currentData < ArrLen(candidatesData) - 1
    /\ updateUI(currentData + 1)
    /\ UNCHANGED <<modalVars, tableVars, compareVars, textVars>>
    /\ alertMessage' = NoAlert

\* els.inputPlain 'input': the field holds txt, and doCrypto runs.
InputPlain(txt) ==
    LET out == doCrypto(candidatesData[currentData].sbox, inverseSBox, txt)
    IN /\ inputPlain' = txt
       /\ outCipher' = out.cipher
       /\ outDec' = out.dec
       /\ UNCHANGED <<currentData, inverseSBox>>
       /\ UNCHANGED <<modalVars, tableVars, compareVars, textVars>>
       /\ alertMessage' = NoAlert

\* The exploration view once the page has loaded: updateUI(k44Idx) has run on
\* an empty input field.
ExploreInit ==
    /\ currentData = InitialIdx
    /\ inverseSBox = InverseOfCandidate[InitialIdx]
    /\ inputPlain = <<>>
    /\ outCipher = Placeholder
    /\ outDec = Placeholder

\* ---------------------------------------------------------------- strings

SetMin(S) == CHOOSE x \in S : \A y \in S : x <= y
SetMax(S) == CHOOSE x \in S : \A y \in S : y <= x

\* c repeated n times.
Repeat(c, n) == [k \in 1..n |-> c]

\* White space, as trim() and the \s of a regular expression see it: tab, line
\* feed, carriage return and space.
IsSpace(c) == c \in {9, 10, 13, 32}

\* s.trim()
trim(s) ==
    LET keep == {i \in 1..Len(s) : ~IsSpace(s[i])}
    IN IF keep = {} THEN <<>> ELSE SubSeq(s, SetMin(keep), SetMax(keep))

\* s.startsWith(prefix)
startsWith(s, prefix) ==
    /\ Len(s) >= Len(prefix)
    /\ SubSeq(s, 1, Len(prefix)) = prefix

\* s.split('\n'): the pieces between the line feeds, in order.
splitLines(s) ==
    LET breaks == {i \in 1..Len(s) : s[i] = 10}
        n == Cardinality(breaks)
        brk(k) ==
            IF k = 0 THEN 0
            ELSE IF k = n + 1 THEN Len(s) + 1
            ELSE CHOOSE x \in breaks : Cardinality({y \in breaks : y < x}) = k - 1
    IN [k \in 1..(n + 1) |-> SubSeq(s, brk(k - 1) + 1, brk(k) - 1)]

\* line.replace(prefix, '') on a line that starts with prefix.
removePrefix(line, prefix) == SubSeq(line, Len(prefix) + 1, Len(line))

\* s.toUpperCase() on the letters a..z.
toUpperCase(s) == [k \in 1..Len(s) |-> IF s[k] \in 97..122 THEN s[k] - 32 ELSE s[k]]

\* A JavaScript number where null and NaN may stand in its place: the number
\* n is Num(n), NaN is NaN, null is Null.
NaN == [isNaN |-> TRUE]
Num(n) == [num |-> n]

IsDigit(c) == c \in 48..57

RECURSIVE DigitsValue(_)
DigitsValue(digits) ==
    IF digits = <<>> THEN 0
    ELSE 10 * DigitsValue(SubSeq(digits, 1, Len(digits) - 1))
             + (digits[Len(digits)] - 48)

\* parseInt reading one digit only.
parseIntOneDigit(s) ==
    LET t == trim(s)
    IN IF t # <<>> /\ IsDigit(t[1]) THEN Num(t[1] - 48) ELSE NaN

\* parseInt(s): leading white space, an optional sign, then the longest run of
\* decimal digits; NaN when there is no digit.
parseInt(s) ==
    LET t == trim(s)
        signed == t # <<>> /\ t[1] \in {43, 45}
        body == IF signed THEN SubSeq(t, 2, Len(t)) ELSE t
        stops == {i \in 1..Len(body) : ~IsDigit(body[i])}
        m == IF stops = {} THEN Len(body) ELSE SetMin(stops) - 1
        value == DigitsValue(SubSeq(body, 1, m))
    IN IF m = 0 THEN NaN
       ELSE IF signed /\ t[1] = 45 THEN Num(0 - value) ELSE Num(value)

\* String(n) for an integer n >= 0: its decimal digits.
RECURSIVE DecString(_)
DecString(n) ==
    IF n < 10 THEN <<48 + n>> ELSE Append(DecString(n \div 10), 48 + (n % 10))

\* x || null on such a number: NaN and 0 are falsy.
OrNull(x) == IF x = NaN \/ x = Num(0) THEN Null ELSE x

\* What JSON.stringify makes of such a number: NaN is written as null.
JsonNumber(x) == IF x = NaN THEN Null ELSE x

\* A string that may be null, used as a condition: null and '' are both falsy
\* and nothing tells them apart here, so both are held as the empty string.
NoString == <<>>
Truthy(str) == str # NoString

\* "LENGTH:" and "HEX:", the two tags of a downloaded ciphertext file.
LengthTag == <<76, 69, 78, 71, 84, 72, 58>>
HexTag == <<72, 69, 88, 58>>

\* The value of one hexadecimal digit of an upper-case string.
HexValue(c) == IF IsDigit(c) THEN c - 48 ELSE c - 55

\* /^[0-9A-F]+$/.test(str)
IsUpperHex(str) ==
    /\ str # <<>>
    /\ \A k \in 1..Len(str) : IsDigit(str[k]) \/ str[k] \in 65..70

\* The loop taking the two digits of a byte in the wrong order.
HexToBytesSwapped(hex) ==
    [k \in 1..(Len(hex) \div 2) |-> 16 * HexValue(hex[2 * k]) + HexValue(hex[2 * k - 1])]

\* The loop  for (i = 0; i < hex.length; i += 2) bytes.push(parseInt(hex.substring(i, i + 2), 16))
HexToBytes(hex) ==
    [k \in 1..((Len(hex) + 1) \div 2) |->
        IF 2 * k <= Len(hex)
        THEN 16 * HexValue(hex[2 * k - 1]) + HexValue(hex[2 * k])
        ELSE HexValue(hex[2 * k - 1])]

\* ------------------------------------------------------- persistent storage

\* The custom table a user has kept: a permutation that is not its own inverse.
CustomTable == AffineTable(3, 7)

\* The files dropped on the upload zone, each held as the table it contains:
\* two permutations, and a table with a repeated value, a short one and one
\* with a value out of range.
UploadFiles == {CustomTable, SwapTable(5, 9), DuplicateTable, ShortTable, OutOfRangeTable}

\* What localStorage may hold under 'customSboxData' when the page loads:
\* nothing, a record saved earlier, a record whose table has a repeated
\* value, and text that is not JSON.
NotJson == [notJson |-> TRUE]
StoredItems ==
    {Null,
     [name |-> "mine", sbox |-> CustomTable, metrics |-> Null, uploadedAt |-> 0],
     [name |-> "broken", sbox |-> DuplicateTable, metrics |-> Null, uploadedAt |-> 0],
     NotJson}

\* loadCustomSboxFromLocalStorage: JSON.parse of the item, null when there is
\* none or when parsing throws.
loadCustomSboxFromLocalStorage(item) ==
    IF item = Null \/ item = NotJson THEN Null ELSE item

\* ------------------------------------------------- the encryption service

\* The block size of the padding.
BlockSize == 16

\* The bytes of a text; the texts typed here are ASCII, one byte a character.
Utf8Encode(txt) ==
    LET wide(k) == Cardinality({j \in 1..k : txt[j] >= 128})
        start(k) == k + wide(k - 1)
        width(k) == IF txt[k] >= 128 THEN 2 ELSE 1
    IN [m \in 1..(Len(txt) + wide(Len(txt))) |->
           LET k == CHOOSE j \in 1..Len(txt) : start(j) <= m /\ m < start(j) + width(j)
           IN IF txt[k] < 128 THEN txt[k]
              ELSE IF m = start(k) THEN 192 + (txt[k] \div 64)
              ELSE 128 + (txt[k] % 64)]

\* Padding: pad bytes whose value is the pad length, a whole block of them
\* when the length is already a multiple of the block size.
Pad(bytes) ==
    LET padLength == BlockSize - (Len(bytes) % BlockSize)
    IN bytes \o Repeat(padLength, padLength)

\* encode: pad, then substitute every byte through the table.
encode(plaintext, forward) ==
    LET padded == Pad(plaintext)
    IN [cipherBytes |-> [k \in 1..Len(padded) |-> forward[padded[k]]],
        originalLength |-> Len(plaintext)]

\* decode: substitute every byte back, then remove the padding: by the
\* original length when it is supplied, by the last byte otherwise.
decode(cipherBytes, backward, originalLength) ==
    LET padded == [k \in 1..Len(cipherBytes) |-> backward[cipherBytes[k]]]
        n == Len(padded)
    IN IF originalLength # Null
       THEN [ok |-> TRUE,
             plaintext |-> SubSeq(padded, 1,
                                  IF originalLength.num < n THEN originalLength.num ELSE n)]
       ELSE IF n = 0 THEN [ok |-> FALSE, error |-> "InvalidPadding"]
       ELSE LET padLength == padded[n]
            IN IF \/ padLength = 0
                  \/ padLength > BlockSize
                  \/ padLength > n
                  \/ \E k \in (n - padLength + 1)..n : padded[k] # padLength
               THEN [ok |-> FALSE, error |-> "InvalidPadding"]
               ELSE [ok |-> TRUE, plaintext |-> SubSeq(padded, 1, n - padLength)]

\* The inverse table the service holds for a validated table.
Backward(forward) ==
    [b \in 0..(TableSize - 1) |-> CHOOSE i \in 0..(TableSize - 1) : forward[i] = b]

\* The catalog's inverse tables, and those of the inline tables that pass
\* validation, worked out once.
CatalogBackward == [idx \in CandidateIdx |-> Backward(candidatesData[idx].sbox)]
InlineTables == {item.sbox : item \in StoredItems \ {Null, NotJson}} \cup UploadFiles
ValidInlineTables == {t \in InlineTables : IsBijective(t)}
InlineBackward == [t \in ValidInlineTables |-> Backward(t)]

\* resolve: a catalog id names a validated table; the id 'custom' comes with
\* an inline table, validated on the spot.
resolve(sbox_id, custom_sbox) ==
    IF sbox_id = "custom"
    THEN IF custom_sbox \in ValidInlineTables
         THEN [ok |-> TRUE, forward |-> custom_sbox, backward |-> InlineBackward[custom_sbox]]
         ELSE [ok |-> FALSE, error |-> "NotBijective"]
    ELSE IF \E idx \in CandidateIdx : candidatesData[idx].id = sbox_id
         THEN LET idx == CHOOSE i \in CandidateIdx : candidatesData[i].id = sbox_id
              IN [ok |-> TRUE, forward |-> candidatesData[idx].sbox,
                  backward |-> CatalogBackward[idx]]
         ELSE [ok |-> FALSE, error |-> "UnknownId"]

\* The answer to POST /encrypt-text.
EncryptTextResponse(request) ==
    LET source == resolve(request.sbox_id, request.custom_sbox)
    IN IF ~source.ok THEN [success |-> FALSE, error |-> source.error]
       ELSE LET result == encode(Utf8Encode(request.plaintext), source.forward)
            IN [success |-> TRUE,
                cipher_bytes |-> result.cipherBytes,
                cipher_hex |-> BytesToHex(result.cipherBytes),
                original_length |-> result.originalLength,
                padded_length |-> Len(result.cipherBytes)]

\* The answer to POST /decrypt-text.  The plaintext is given as its bytes.
DecryptTextResponse(request) ==
    LET source == resolve(request.sbox_id, request.custom_sbox)
    IN IF ~source.ok THEN [success |-> FALSE, error |-> source.error]
       ELSE LET result == decode(request.cipher_bytes, source.backward,
                                 request.original_length)
            IN IF result.ok THEN [success |-> TRUE, plaintext |-> result.plaintext]
               ELSE [success |-> FALSE, error |-> result.error]

\* ------------------------------------------------ the text encryption tab

\* The candidates picked in the text tab's selector: K44; the saved custom
\* table is the second table of the tab.
TextChoices == {1}

\* Plaintexts typed: 'A' alone, and 'A' repeated to the longest length and to
\* one short of it (a whole block and one byte short of a block).
TypedTexts == {Repeat(65, n) : n \in {1, MaxPlainLen - 1, MaxPlainLen}}

\* One block of padded plaintext bytes as the hex of its ciphertext under the
\* candidate idx.
CipherHexOf(padded, idx) ==
    BytesToHex([k \in 1..Len(padded) |-> candidatesData[idx].sbox[padded[k]]])

\* s.toLowerCase() on the letters A..Z, and a space put after every second
\* character: the same hex as someone might type it.
LowerSpaced(hex) ==
    [k \in 1..(Len(hex) + Len(hex) \div 2) |->
        IF k % 3 = 0 THEN 32
        ELSE LET c == hex[k - (k \div 3)]
             IN IF c \in 65..90 THEN c + 32 ELSE c]

\* Ciphertexts typed by hand: fifteen bytes only; a block whose last byte
\* decodes to 0 under K44; a block whose last byte decodes to 2 after a byte
\* that decodes to 5, in lower case with spaces; a file whose LENGTH line
\* holds no number.
TypedCiphers ==
    {Repeat(65, 2 * BlockSize - 2),
     CipherHexOf(Repeat(65, BlockSize - 1) \o <<0>>, 1),
     LowerSpaced(CipherHexOf(Repeat(65, BlockSize - 2) \o <<5, 2>>, 1)),
     LengthTag \o <<97, 98, 99, 10>> \o HexTag \o CipherHexOf(Pad(<<65>>), 1)}

\* The default key of the key field.
DefaultKey == "cryptography2024"

\* The hint the output pane shows while it has no result.
OutputHint == [hint |-> TRUE]

\* The name shown for the saved custom table: savedCustomSbox.name || fallback.
CustomNameOr(fallback) ==
    IF savedCustomSbox.name = "" THEN fallback ELSE savedCustomSbox.name

\* error.message of a fetch that failed.
FetchError == "Failed to fetch"

\* TextSboxChoice with the saved table sent along whenever there is one.
TextSboxChoiceAlwaysInline ==
    [sbox_id |->
        IF useCustomSboxForText /\ savedCustomSbox # Null THEN "custom"
        ELSE IF selectedTextEncryptData # Undefined
        THEN candidatesData[selectedTextEncryptData].id
        ELSE candidatesData[selectedEncryptData].id,
     custom_sbox |-> IF savedCustomSbox # Null THEN savedCustomSbox.sbox ELSE Null]

\* The choice of table both handlers make: the saved custom table when it is
\* selected and there is one, else the text tab's candidate, else the
\* encryption tab's, else the first of the catalog.
TextSboxChoice ==
    IF useCustomSboxForText /\ savedCustomSbox # Null
    THEN [sbox_id |-> "custom", custom_sbox |-> savedCustomSbox.sbox]
    ELSE IF selectedTextEncryptData # Undefined
    THEN [sbox_id |-> candidatesData[selectedTextEncryptData].id, custom_sbox |-> Null]
    ELSE IF selectedEncryptData # Undefined
    THEN [sbox_id |-> candidatesData[selectedEncryptData].id, custom_sbox |-> Null]
    ELSE [sbox_id |-> candidatesData[0].id, custom_sbox |-> Null]

\* textEncryptSelector 'change' to a catalog candidate.
TextEncryptSelectorChange(value) ==
    /\ useCustomSboxForText' = FALSE
    /\ selectedTextEncryptData' = value
    /\ selectedEncryptData' = value
    /\ cipherBytesData' = <<>>
    /\ originalLengthData' = <<>>
    /\ outputResult' = OutputHint
    /\ outputLabel' = "Output"
    /\ alertMessage' = NoAlert
    /\ UNCHANGED <<lastCipherHex, lastOriginalLength, lastDecryptedText>>
    /\ UNCHANGED <<storageVars, textInputPlain, fetchVars>>
    /\ UNCHANGED <<modalVars, tableVars, exploreVars, compareVars, pageVars>>

\* textEncryptSelector 'change' to the custom option, which the selector
\* offers while there is a saved custom table.
TextEncryptSelectorCustom ==
    /\ savedCustomSbox # Null
    /\ useCustomSboxForText' = TRUE
    /\ selectedTextEncryptData' = Undefined
    /\ UNCHANGED selectedEncryptData
    /\ cipherBytesData' = <<>>
    /\ originalLengthData' = <<>>
    /\ outputResult' = OutputHint
    /\ outputLabel' = "Output"
    /\ alertMessage' = NoAlert
    /\ UNCHANGED <<lastCipherHex, lastOriginalLength, lastDecryptedText>>
    /\ UNCHANGED <<storageVars, textInputPlain, fetchVars>>
    /\ UNCHANGED <<modalVars, tableVars, exploreVars, compareVars, pageVars>>

\* inputPlain 'input' in the text tab: the field now holds txt.
TextInput(txt) ==
    /\ textInputPlain' = txt
    /\ IF txt = <<>>
       THEN outputResult' = OutputHint /\ outputLabel' = "Output"
       ELSE UNCHANGED displayVars
    /\ alertMessage' = NoAlert
    /\ UNCHANGED <<storageVars, selectionVars, resultVars, fetchVars>>
    /\ UNCHANGED <<modalVars, tableVars, exploreVars, compareVars, pageVars>>

\* What the copy button puts on the clipboard.
CopiedText == IF Truthy(lastDecryptedText) THEN lastDecryptedText ELSE lastCipherHex

\* The download button writing the padded length, the number of ciphertext
\* bytes, on the LENGTH line.
DownloadedFilePaddedLength ==
    IF lastOriginalLength # Undefined /\ lastOriginalLength # 0
    THEN LengthTag \o DecString(Len(lastCipherHex) \div 2) \o <<10>> \o HexTag \o lastCipherHex
    ELSE lastCipherHex

\* What the download button writes to the file.
DownloadedFile ==
    IF lastOriginalLength # Undefined /\ lastOriginalLength # 0
    THEN LengthTag \o DecString(lastOriginalLength) \o <<10>> \o HexTag \o lastCipherHex
    ELSE lastCipherHex

\* The copy button while the output shows a ciphertext, then the clipboard
\* pasted into the input field.
PasteCopied ==
    /\ ~Truthy(lastDecryptedText)
    /\ Truthy(CopiedText)
    /\ TextInput(CopiedText)

\* The download button, then the file's content pasted into the input field.
PasteDownloaded ==
    /\ Truthy(lastCipherHex)
    /\ TextInput(DownloadedFile)

\* encryptTextEnhanced up to its await: an empty input is refused with an
\* alert; otherwise the choice of table, the button disabled, the label set,
\* the request sent.
encryptTextEnhanced ==
    /\ ~encryptTextBtnDisabled
    /\ Len(textInputPlain) <= MaxPlainLen
    /\ IF textInputPlain = <<>>
       THEN /\ alertMessage' = <<"Please enter text to encrypt!">>
            /\ UNCHANGED <<encryptTextBtnDisabled, encryptFetch, outputLabel>>
       ELSE /\ encryptTextBtnDisabled' = TRUE
            /\ outputLabel' = "Ciphertext (Hex)"
            /\ encryptFetch' =
                   [request |-> [plaintext |-> textInputPlain,
                                 sbox_id |-> TextSboxChoice.sbox_id,
                                 key |-> DefaultKey,
                                 custom_sbox |-> TextSboxChoice.custom_sbox],
                    response |-> Null]
            /\ alertMessage' = NoAlert
    /\ UNCHANGED outputResult
    /\ UNCHANGED <<decryptTextBtnDisabled, decryptFetch>>
    /\ UNCHANGED <<storageVars, selectionVars, textInputPlain, resultVars>>
    /\ UNCHANGED <<modalVars, tableVars, exploreVars, compareVars, pageVars>>

\* The service answers the encrypt request.
EncryptTextServed ==
    /\ encryptFetch # Null
    /\ encryptFetch.response = Null
    /\ encryptFetch' =
           [encryptFetch EXCEPT !.response = EncryptTextResponse(encryptFetch.request)]
    /\ alertMessage' = NoAlert
    /\ UNCHANGED displayVars
    /\ UNCHANGED <<encryptTextBtnDisabled, decryptTextBtnDisabled, decryptFetch>>
    /\ UNCHANGED <<storageVars, selectionVars, textInputPlain, resultVars>>
    /\ UNCHANGED <<modalVars, tableVars, exploreVars, compareVars, pageVars>>

\* encryptTextEnhanced after its await: a success is recorded, a failure is
\* alerted; the button is enabled again either way.
encryptTextEnhancedResume ==
    /\ encryptFetch # Null
    /\ encryptFetch.response # Null
    /\ LET data == encryptFetch.response
       IN IF data.success
          THEN /\ lastCipherHex' = data.cipher_hex
               /\ lastOriginalLength' = data.original_length
               /\ lastDecryptedText' = NoString
               /\ cipherBytesData' = data.cipher_bytes
               /\ originalLengthData' = DecString(data.original_length)
               /\ outputResult' =
                      [cipher_hex |-> data.cipher_hex,
                       encryptedWith |->
                           IF useCustomSboxForText /\ savedCustomSbox # Null
                           THEN CustomNameOr("Custom S-Box") ELSE "",
                       original_length |-> data.original_length,
                       padded_length |-> data.padded_length]
               /\ alertMessage' = NoAlert
          ELSE /\ alertMessage' = <<"Encryption failed: ", data.error>>
               /\ UNCHANGED <<resultVars, outputResult>>
    /\ UNCHANGED outputLabel
    /\ encryptTextBtnDisabled' = FALSE
    /\ encryptFetch' = Null
    /\ UNCHANGED <<decryptTextBtnDisabled, decryptFetch>>
    /\ UNCHANGED <<storageVars, selectionVars, textInputPlain>>
    /\ UNCHANGED <<modalVars, tableVars, exploreVars, compareVars, pageVars>>

\* encryptTextEnhancedCatch without the finally block: the button stays
\* disabled.
encryptTextEnhancedCatchNoFinally ==
    /\ encryptFetch # Null
    /\ encryptFetch.response = Null
    /\ alertMessage' = <<"Encryption failed: ", FetchError>>
    /\ UNCHANGED displayVars
    /\ encryptFetch' = Null
    /\ UNCHANGED <<encryptTextBtnDisabled, decryptTextBtnDisabled, decryptFetch>>
    /\ UNCHANGED <<storageVars, selectionVars, textInputPlain, resultVars>>
    /\ UNCHANGED <<modalVars, tableVars, exploreVars, compareVars, pageVars>>

\* encryptTextEnhanced when fetch throws: the catch alerts, the finally
\* enables the button.
encryptTextEnhancedCatch ==
    /\ encryptFetch # Null
    /\ encryptFetch.response = Null
    /\ alertMessage' = <<"Encryption failed: ", FetchError>>
    /\ UNCHANGED displayVars
    /\ encryptTextBtnDisabled' = FALSE
    /\ encryptFetch' = Null
    /\ UNCHANGED <<decryptTextBtnDisabled, decryptFetch>>
    /\ UNCHANGED <<storageVars, selectionVars, textInputPlain, resultVars>>
    /\ UNCHANGED <<modalVars, tableVars, exploreVars, compareVars, pageVars>>

\* The start of decryptTextEnhanced: the original length remembered in the
\* hidden field, overridden by the LENGTH line of a downloaded file, whose
\* HEX line then replaces the input; the input cleaned and tested.
ParseCipherInput(field, lengthField) ==
    LET typed == trim(field)
        remembered == OrNull(parseInt(lengthField))
        hasHeader == startsWith(typed, LengthTag)
        lines == splitLines(typed)
        lengthLines == {k \in DOMAIN lines : startsWith(lines[k], LengthTag)}
        hexLines == {k \in DOMAIN lines :
                        ~startsWith(lines[k], LengthTag) /\ startsWith(lines[k], HexTag)}
        originalLength ==
            IF hasHeader
            THEN parseInt(trim(removePrefix(lines[SetMax(lengthLines)], LengthTag)))
            ELSE remembered
        inputText ==
            IF hasHeader /\ hexLines # {}
            THEN trim(removePrefix(lines[SetMax(hexLines)], HexTag))
            ELSE typed
        cleanedInput == toUpperCase(SelectSeq(inputText, LAMBDA c : ~IsSpace(c)))
        isHexInput ==
            /\ IsUpperHex(cleanedInput)
            /\ Len(cleanedInput) % 2 = 0
            /\ Len(cleanedInput) >= MinCipherHexLength
    IN [empty |-> typed = <<>>,
        originalLength |-> originalLength,
        isHexInput |-> isHexInput,
        cipherBytes |-> IF isHexInput THEN HexToBytes(cleanedInput) ELSE <<>>]

\* decryptTextEnhanced up to its await: an empty input and one that is not a
\* hex ciphertext are refused with an alert; otherwise the request is sent.
decryptTextEnhanced ==
    LET parsed == ParseCipherInput(textInputPlain, originalLengthData)
    IN /\ ~decryptTextBtnDisabled
       /\ IF parsed.empty
          THEN /\ alertMessage' = <<"Masukkan ciphertext hex untuk didekripsi!">>
               /\ UNCHANGED <<decryptTextBtnDisabled, decryptFetch, outputLabel>>
          ELSE IF ~parsed.isHexInput
          THEN /\ alertMessage' = <<"Input tidak valid sebagai ciphertext!">>
               /\ UNCHANGED <<decryptTextBtnDisabled, decryptFetch, outputLabel>>
          ELSE /\ decryptTextBtnDisabled' = TRUE
               /\ outputLabel' = "Decrypted Plaintext"
               /\ decryptFetch' =
                      [request |->
                           [cipher_bytes |-> parsed.cipherBytes,
                            sbox_id |-> TextSboxChoice.sbox_id,
                            key |-> DefaultKey,
                            original_length |-> JsonNumber(parsed.originalLength),
                            custom_sbox |-> TextSboxChoice.custom_sbox],
                       response |-> Null]
               /\ alertMessage' = NoAlert
       /\ UNCHANGED outputResult
       /\ UNCHANGED <<encryptTextBtnDisabled, encryptFetch>>
       /\ UNCHANGED <<storageVars, selectionVars, textInputPlain, resultVars>>
       /\ UNCHANGED <<modalVars, tableVars, exploreVars, compareVars, pageVars>>

\* The service answers the decrypt request.
DecryptTextServed ==
    /\ decryptFetch # Null
    /\ decryptFetch.response = Null
    /\ decryptFetch' =
           [decryptFetch EXCEPT !.response = DecryptTextResponse(decryptFetch.request)]
    /\ alertMessage' = NoAlert
    /\ UNCHANGED displayVars
    /\ UNCHANGED <<encryptTextBtnDisabled, decryptTextBtnDisabled, encryptFetch>>
    /\ UNCHANGED <<storageVars, selectionVars, textInputPlain, resultVars>>
    /\ UNCHANGED <<modalVars, tableVars, exploreVars, compareVars, pageVars>>

\* decryptTextEnhanced after its await.
decryptTextEnhancedResume ==
    /\ decryptFetch # Null
    /\ decryptFetch.response # Null
    /\ LET data == decryptFetch.response
       IN IF data.success
          THEN /\ lastDecryptedText' = data.plaintext
               /\ lastCipherHex' = NoString
               /\ outputResult' = [plaintext |-> data.plaintext]
               /\ alertMessage' = NoAlert
               /\ UNCHANGED <<cipherBytesData, originalLengthData, lastOriginalLength>>
          ELSE /\ alertMessage' = <<"Decryption failed: ", data.error>>
               /\ outputResult' = [failed |-> data.error]
               /\ UNCHANGED resultVars
    /\ UNCHANGED outputLabel
    /\ decryptTextBtnDisabled' = FALSE
    /\ decryptFetch' = Null
    /\ UNCHANGED <<encryptTextBtnDisabled, encryptFetch>>
    /\ UNCHANGED <<storageVars, selectionVars, textInputPlain>>
    /\ UNCHANGED <<modalVars, tableVars, exploreVars, compareVars, pageVars>>

\* decryptTextEnhanced when fetch throws, with the ciphertext kept for the
\* copy and download buttons dropped as on a success.
decryptTextEnhancedCatchClears ==
    /\ decryptFetch # Null
    /\ decryptFetch.response = Null
    /\ alertMessage' = <<"Decryption failed: ", FetchError>>
    /\ UNCHANGED displayVars
    /\ decryptTextBtnDisabled' = FALSE
    /\ decryptFetch' = Null
    /\ lastCipherHex' = NoString
    /\ UNCHANGED <<cipherBytesData, originalLengthData, lastOriginalLength, lastDecryptedText>>
    /\ UNCHANGED <<encryptTextBtnDisabled, encryptFetch>>
    /\ UNCHANGED <<storageVars, selectionVars, textInputPlain>>
    /\ UNCHANGED <<modalVars, tableVars, exploreVars, compareVars, pageVars>>

\* decryptTextEnhanced when fetch throws.
decryptTextEnhancedCatch ==
    /\ decryptFetch # Null
    /\ decryptFetch.response = Null
    /\ alertMessage' = <<"Decryption failed: ", FetchError>>
    /\ UNCHANGED displayVars
    /\ decryptTextBtnDisabled' = FALSE
    /\ decryptFetch' = Null
    /\ UNCHANGED <<encryptTextBtnDisabled, encryptFetch>>
    /\ UNCHANGED <<storageVars, selectionVars, textInputPlain, resultVars>>
    /\ UNCHANGED <<modalVars, tableVars, exploreVars, compareVars, pageVars>>

\* ------------------------------------------------- the custom S-box upload

\* The fixed points of a table and its opposite fixed points, as metrics.
FixedPoints(t) == 100000 * Cardinality({i \in 0..(TableSize - 1) : t[i] = i})
OppositeFixedPoints(t) ==
    100000 * Cardinality({i \in 0..(TableSize - 1) : t[i] = TableSize - 1 - i})

\* The payload the analysis service returns for an accepted table; all but
\* the two counts are opaque numbers.
AnalysisOf(t) ==
    [nonlinearity |-> IF t = CustomTable THEN 11200000 ELSE 10000000,
     sac |-> IF t = CustomTable THEN 49000 ELSE 52000,
     bic |-> 49000,
     lap |-> 6250,
     dap |-> IF t = CustomTable THEN 1560 ELSE 2340,
     fixed_points |-> FixedPoints(t),
     opposite_fixed_points |-> OppositeFixedPoints(t)]

\* The answer to POST /upload-custom-sbox: the table is validated (length,
\* range, bijection) and analysed.
UploadResponse(file) ==
    IF ArrLen(file) # TableSize
    THEN [success |-> FALSE, error |-> "NotBijective: wrong length"]
    ELSE IF \E i \in 0..(TableSize - 1) : file[i] < 0 \/ file[i] >= TableSize
    THEN [success |-> FALSE, error |-> "NotBijective: value out of range"]
    ELSE IF ~IsBijective(file)
    THEN [success |-> FALSE, error |-> "NotBijective: duplicate value"]
    ELSE [success |-> TRUE, message |-> "valid", sbox |-> file,
          metrics |-> AnalysisOf(file)]
UploadAnswers == [file \in UploadFiles |-> UploadResponse(file)]

\* The name field of the upload form is left empty: value || 'Custom S-Box'.
customSboxName == "Custom S-Box"

\* customSboxForStorage without the date of the upload.
customSboxForStorageUndated(data) ==
    [name |-> customSboxName, sbox |-> data.sbox, metrics |-> data.metrics]

\* The record both the upload and the save button keep for encryption.
customSboxForStorage(data) ==
    [name |-> customSboxName, sbox |-> data.sbox, metrics |-> data.metrics,
     uploadedAt |-> clock]

\* saveCustomSboxToLocalStorage: the item is written and true returned, or
\* setItem throws, nothing is written and false is returned.
saveCustomSboxToLocalStorage(sboxData, written) ==
    customSboxData' = IF written THEN sboxData ELSE customSboxData

\* The selectors without the custom option.
NoOption == ""

\* The custom option addCustomSboxOption leaves in a selector: none without a
\* saved table, else its name || 'Custom S-Box'.
CustomOptionOf(saved) ==
    IF saved = Null THEN NoOption
    ELSE IF saved.name = "" THEN "Custom S-Box" ELSE saved.name

\* ------------------------------------------------------ the selector groups

\* populateSelector whose reference group takes the standard candidates only.
populateSelectorStandardOnly ==
    [groupRef |-> {candidatesData[i].id : i \in {j \in CandidateIdx :
                       candidatesData[j].type = "standard"}},
     groupGen |-> {candidatesData[i].id : i \in {j \in CandidateIdx :
                       candidatesData[j].type # "standard"}}]

\* populateSelector: the two optgroups a selector is filled with, 'Referensi
\* Utama' for the types standard and proposed, 'Hasil Eksplorasi' for the
\* rest; an option is named here by its candidate's id.
populateSelector ==
    [groupRef |-> {candidatesData[i].id : i \in {j \in CandidateIdx :
                       candidatesData[j].type \in {"standard", "proposed"}}},
     groupGen |-> {candidatesData[i].id : i \in {j \in CandidateIdx :
                       candidatesData[j].type \notin {"standard", "proposed"}}}]

\* The optgroup addCustomSboxOption appends to the text and image selectors:
\* one option 'custom' when a table is saved, no group otherwise.
groupCustom == IF customOption = NoOption THEN {} ELSE {"custom"}

\* An upload that has not started.
IdleUpload == [pc |-> "idle"]
UploadIds == 1..MaxUploads
InFlight == {i \in UploadIds : uploads[i].pc \in {"awaiting", "answered"}}

\* handleCustomSboxUpload(file) up to its await: the status shows the
\* spinner and the request is sent.
handleCustomSboxUpload(file) ==
    /\ \E i \in UploadIds : uploads[i].pc = "idle"
    /\ LET i == SetMin({j \in UploadIds : uploads[j].pc = "idle"})
       IN uploads' = [uploads EXCEPT ![i] =
                          [pc |-> "awaiting", file |-> file, with |-> InFlight]]
    /\ statusTitle' = "Processing..."
    /\ statusMessage' = "Menganalisis file Excel..."
    /\ alertMessage' = NoAlert
    /\ UNCHANGED <<customSboxResults, customOption, clock, uploadedCustomSbox>>
    /\ UNCHANGED <<existingMetrics, compareSboxSelector, sboxComparisonResults,
                   comparisonHistory>>
    /\ UNCHANGED <<storageVars, selectionVars, textInputPlain, resultVars, fetchVars,
                   displayVars, imageVars>>
    /\ UNCHANGED <<modalVars, tableVars, exploreVars>>

\* The service answers upload i.
UploadServed(i) ==
    /\ uploads[i].pc = "awaiting"
    /\ uploads' = [uploads EXCEPT ![i] =
                      [pc |-> "answered", file |-> uploads[i].file,
                       with |-> uploads[i].with,
                       response |-> UploadAnswers[uploads[i].file]]]
    /\ alertMessage' = NoAlert
    /\ UNCHANGED <<statusTitle, statusMessage, customSboxResults, customOption, clock>>
    /\ UNCHANGED <<modalVars, tableVars, exploreVars, compareVars>>
    /\ UNCHANGED <<storageVars, selectionVars, textInputPlain, resultVars, fetchVars,
                   displayVars, imageVars>>

\* What upload i leaves on the status line once it is over.
UploadDone(i, title, message) ==
    [uploads EXCEPT ![i] =
        [pc |-> "done", file |-> uploads[i].file, with |-> uploads[i].with,
         title |-> title, message |-> message]]

\* handleCustomSboxUploadResume that also forgets the uploaded table when the
\* answer is a rejection.
handleCustomSboxUploadResumeForgets(i, written) ==
    /\ uploads[i].pc = "answered"
    /\ LET data == uploads[i].response
       IN IF data.success
          THEN /\ clock < MaxClock
               /\ statusTitle' = "S-Box Valid!"
               /\ statusMessage' = data.message
               /\ uploads' = UploadDone(i, "S-Box Valid!", data.message)
               /\ uploadedCustomSbox' = data
               /\ saveCustomSboxToLocalStorage(customSboxForStorage(data), written)
               /\ savedCustomSbox' = customSboxForStorage(data)
               /\ customOption' = CustomOptionOf(savedCustomSbox')
               /\ customSboxResults' = "block"
               /\ clock' = clock + 1
          ELSE /\ written
               /\ statusTitle' = "Error!"
               /\ statusMessage' = data.error
               /\ uploads' = UploadDone(i, "Error!", data.error)
               /\ customSboxResults' = "none"
               /\ uploadedCustomSbox' = Null
               /\ UNCHANGED <<storageVars, customOption, clock>>
    /\ alertMessage' = NoAlert
    /\ UNCHANGED <<existingMetrics, compareSboxSelector, sboxComparisonResults,
                   comparisonHistory>>
    /\ UNCHANGED <<selectionVars, textInputPlain, resultVars, fetchVars, displayVars,
                   imageVars>>
    /\ UNCHANGED <<modalVars, tableVars, exploreVars>>

\* handleCustomSboxUpload after its await.  An accepted table is kept as the
\* uploaded one, written to storage (written: whether setItem went through),
\* kept as the saved one whatever the write did, and offered by the two
\* selectors; a rejected one only shows its reason.
handleCustomSboxUploadResume(i, written) ==
    /\ uploads[i].pc = "answered"
    /\ LET data == uploads[i].response
       IN IF data.success
          THEN /\ clock < MaxClock
               /\ statusTitle' = "S-Box Valid!"
               /\ statusMessage' = data.message
               /\ uploads' = UploadDone(i, "S-Box Valid!", data.message)
               /\ uploadedCustomSbox' = data
               /\ saveCustomSboxToLocalStorage(customSboxForStorage(data), written)
               /\ savedCustomSbox' = customSboxForStorage(data)
               /\ customOption' = CustomOptionOf(savedCustomSbox')
               /\ customSboxResults' = "block"
               /\ clock' = clock + 1
          ELSE /\ written \* nothing is written: one step, not two
               /\ statusTitle' = "Error!"
               /\ statusMessage' = data.error
               /\ uploads' = UploadDone(i, "Error!", data.error)
               /\ customSboxResults' = "none"
               /\ UNCHANGED <<uploadedCustomSbox, storageVars, customOption, clock>>
    /\ alertMessage' = NoAlert
    /\ UNCHANGED <<existingMetrics, compareSboxSelector, sboxComparisonResults,
                   comparisonHistory>>
    /\ UNCHANGED <<selectionVars, textInputPlain, resultVars, fetchVars, displayVars,
                   imageVars>>
    /\ UNCHANGED <<modalVars, tableVars, exploreVars>>

\* handleCustomSboxUpload when fetch throws.
handleCustomSboxUploadCatch(i) ==
    /\ uploads[i].pc = "awaiting"
    /\ statusTitle' = "Error!"
    /\ statusMessage' = FetchError
    /\ uploads' = UploadDone(i, "Error!", FetchError)
    /\ customSboxResults' = "none"
    /\ alertMessage' = NoAlert
    /\ UNCHANGED <<customOption, clock>>
    /\ UNCHANGED <<modalVars, tableVars, exploreVars, compareVars>>
    /\ UNCHANGED <<storageVars, selectionVars, textInputPlain, resultVars, fetchVars,
                   displayVars, imageVars>>

\* saveCustomSboxBtn 'click': the uploaded table is written to storage again;
\* it becomes the saved one only when the write went through.
SaveCustomSboxClick(written) ==
    /\ IF uploadedCustomSbox = Null
       THEN /\ written \* nothing is written: one step, not two
            /\ alertMessage' = <<"Please upload an S-Box file first!">>
            /\ UNCHANGED <<storageVars, customOption, clock>>
       ELSE /\ clock < MaxClock
            /\ saveCustomSboxToLocalStorage(customSboxForStorage(uploadedCustomSbox),
                                            written)
            /\ clock' = clock + 1
            /\ IF written
               THEN /\ savedCustomSbox' = customSboxForStorage(uploadedCustomSbox)
                    /\ customOption' = CustomOptionOf(savedCustomSbox')
                    /\ alertMessage' = NoAlert
               ELSE /\ alertMessage' = <<"Gagal menyimpan Custom S-Box. Coba lagi.">>
                    /\ UNCHANGED <<savedCustomSbox, customOption>>
    /\ UNCHANGED <<uploads, statusTitle, statusMessage, customSboxResults>>
    /\ UNCHANGED <<modalVars, tableVars, exploreVars, compareVars>>
    /\ UNCHANGED <<selectionVars, textInputPlain, resultVars, fetchVars, displayVars,
                   imageVars>>

\* The clear handler without the reset of the two custom-use flags.
ClearCustomSboxClickKeepsFlags ==
    /\ customSboxData' = Null
    /\ savedCustomSbox' = Null
    /\ customOption' = NoOption
    /\ selectedTextEncryptData' = 0
    /\ selectedImageEncryptData' = 0
    /\ alertMessage' = NoAlert
    /\ UNCHANGED <<selectedEncryptData, useCustomSboxForText, useCustomSboxForImage>>
    /\ UNCHANGED <<uploads, statusTitle, statusMessage, customSboxResults, clock>>
    /\ UNCHANGED <<uploadedImageFile, encryptImageBtnDisabled, decryptImageBtnDisabled,
                   imageFetches, resultLabel>>
    /\ UNCHANGED <<textInputPlain, resultVars, fetchVars, displayVars>>
    /\ UNCHANGED <<modalVars, tableVars, exploreVars, compareVars>>

\* clearCustomSboxBtn 'click', the question confirmed: the item is removed,
\* the saved table forgotten, both tabs taken off the custom table and back
\* to the first candidate.
ClearCustomSboxClick ==
    /\ customSboxData' = Null
    /\ savedCustomSbox' = Null
    /\ useCustomSboxForText' = FALSE
    /\ useCustomSboxForImage' = FALSE
    /\ customOption' = NoOption
    /\ selectedTextEncryptData' = 0
    /\ selectedImageEncryptData' = 0
    /\ alertMessage' = NoAlert
    /\ UNCHANGED selectedEncryptData
    /\ UNCHANGED <<uploads, statusTitle, statusMessage, customSboxResults, clock>>
    /\ UNCHANGED <<uploadedImageFile, encryptImageBtnDisabled, decryptImageBtnDisabled,
                   imageFetches, resultLabel>>
    /\ UNCHANGED <<textInputPlain, resultVars, fetchVars, displayVars>>
    /\ UNCHANGED <<modalVars, tableVars, exploreVars, compareVars>>

\* ------------------------------------------------ the image encryption tab

\* No image chosen, and the one image chosen.
NoFile == ""
ImageFiles == {"image.png"}

\* The choice of table the two image handlers make, and the custom_sbox field
\* they append only when the custom table is used.
ImageSboxChoice ==
    IF useCustomSboxForImage /\ savedCustomSbox # Null
    THEN [sbox_id |-> "custom", custom_sbox |-> savedCustomSbox.sbox]
    ELSE [sbox_id |-> IF selectedImageEncryptData # Undefined
                      THEN candidatesData[selectedImageEncryptData].id
                      ELSE candidatesData[selectedEncryptData].id,
          custom_sbox |-> Null]

\* imageEncryptSelector 'change' to a catalog candidate.
ImageEncryptSelectorChange(value) ==
    /\ useCustomSboxForImage' = FALSE
    /\ selectedImageEncryptData' = value
    /\ selectedEncryptData' = value
    /\ alertMessage' = NoAlert
    /\ UNCHANGED <<useCustomSboxForText, selectedTextEncryptData>>
    /\ UNCHANGED <<uploadedImageFile, encryptImageBtnDisabled, decryptImageBtnDisabled,
                   imageFetches, resultLabel>>
    /\ UNCHANGED <<storageVars, textInputPlain, resultVars, fetchVars, displayVars,
                   customVars>>
    /\ UNCHANGED <<modalVars, tableVars, exploreVars, compareVars>>

\* imageEncryptSelector 'change' to the custom option.
ImageEncryptSelectorCustom ==
    /\ customOption # NoOption
    /\ useCustomSboxForImage' = TRUE
    /\ selectedImageEncryptData' = Undefined
    /\ alertMessage' = NoAlert
    /\ UNCHANGED <<useCustomSboxForText, selectedTextEncryptData, selectedEncryptData>>
    /\ UNCHANGED <<uploadedImageFile, encryptImageBtnDisabled, decryptImageBtnDisabled,
                   imageFetches, resultLabel>>
    /\ UNCHANGED <<storageVars, textInputPlain, resultVars, fetchVars, displayVars,
                   customVars>>
    /\ UNCHANGED <<modalVars, tableVars, exploreVars, compareVars>>

\* imageUpload 'change': an image is chosen and both buttons are enabled.
ImageUploadChange(file) ==
    /\ uploadedImageFile' = file
    /\ encryptImageBtnDisabled' = FALSE
    /\ decryptImageBtnDisabled' = FALSE
    /\ alertMessage' = NoAlert
    /\ UNCHANGED <<useCustomSboxForImage, selectedImageEncryptData, imageFetches,
                   resultLabel>>
    /\ UNCHANGED <<storageVars, selectionVars, textInputPlain, resultVars, fetchVars,
                   displayVars, customVars>>
    /\ UNCHANGED <<modalVars, tableVars, exploreVars, compareVars>>

\* encryptImageBtn / decryptImageBtn 'click' up to the await: without an image
\* an alert; otherwise both buttons disabled and the request sent.
ImageClick(kind) ==
    /\ IF kind = "encrypt" THEN ~encryptImageBtnDisabled ELSE ~decryptImageBtnDisabled
    /\ IF uploadedImageFile = NoFile
       THEN /\ alertMessage' = <<"Please upload an image first!">>
            /\ UNCHANGED <<encryptImageBtnDisabled, decryptImageBtnDisabled, imageFetches>>
       ELSE /\ Len(imageFetches) < MaxImageRequests
            /\ encryptImageBtnDisabled' = TRUE
            /\ decryptImageBtnDisabled' = TRUE
            /\ imageFetches' =
                   Append(imageFetches,
                          [kind |-> kind,
                           request |-> [image |-> uploadedImageFile,
                                        sbox_id |-> ImageSboxChoice.sbox_id,
                                        key |-> DefaultKey,
                                        custom_sbox |-> ImageSboxChoice.custom_sbox],
                           response |-> Null])
            /\ alertMessage' = NoAlert
    /\ UNCHANGED <<useCustomSboxForImage, selectedImageEncryptData, uploadedImageFile,
                   resultLabel>>
    /\ UNCHANGED <<storageVars, selectionVars, textInputPlain, resultVars, fetchVars,
                   displayVars, customVars>>
    /\ UNCHANGED <<modalVars, tableVars, exploreVars, compareVars>>

\* The answer to POST /encrypt-image and /decrypt-image: the table is
\* resolved; the picture itself is not looked into.
ImageResponse(kind, request) ==
    LET source == resolve(request.sbox_id, request.custom_sbox)
    IN IF ~source.ok THEN [success |-> FALSE, error |-> source.error]
       ELSE [success |-> TRUE, image |-> <<kind, request.image, request.sbox_id>>]

\* The service answers image request k.
ImageServed(k) ==
    /\ k \in DOMAIN imageFetches
    /\ imageFetches[k].response = Null
    /\ imageFetches' =
           [imageFetches EXCEPT ![k].response =
               ImageResponse(imageFetches[k].kind, imageFetches[k].request)]
    /\ alertMessage' = NoAlert
    /\ UNCHANGED <<useCustomSboxForImage, selectedImageEncryptData, uploadedImageFile,
                   encryptImageBtnDisabled, decryptImageBtnDisabled, resultLabel>>
    /\ UNCHANGED <<storageVars, selectionVars, textInputPlain, resultVars, fetchVars,
                   displayVars, customVars>>
    /\ UNCHANGED <<modalVars, tableVars, exploreVars, compareVars>>

\* imageFetches without its k-th request.
WithoutRequest(k) ==
    [j \in 1..(Len(imageFetches) - 1) |->
        IF j < k THEN imageFetches[j] ELSE imageFetches[j + 1]]

\* Either image handler after its await: the result shown or the failure
\* alerted, and both buttons enabled again.
ImageResume(k) ==
    /\ k \in DOMAIN imageFetches
    /\ imageFetches[k].response # Null
    /\ IF imageFetches[k].response.success
       THEN /\ resultLabel' =
                   IF imageFetches[k].kind = "encrypt" THEN "Encrypted" ELSE "Decrypted"
            /\ alertMessage' = NoAlert
       ELSE /\ alertMessage' =
                   <<IF imageFetches[k].kind = "encrypt"
                     THEN "Encryption failed: " ELSE "Decryption failed: ",
                     imageFetches[k].response.error>>
            /\ UNCHANGED resultLabel
    /\ encryptImageBtnDisabled' = FALSE
    /\ decryptImageBtnDisabled' = FALSE
    /\ imageFetches' = WithoutRequest(k)
    /\ UNCHANGED <<useCustomSboxForImage, selectedImageEncryptData, uploadedImageFile>>
    /\ UNCHANGED <<storageVars, selectionVars, textInputPlain, resultVars, fetchVars,
                   displayVars, customVars>>
    /\ UNCHANGED <<modalVars, tableVars, exploreVars, compareVars>>

\* Either image handler when fetch throws.
ImageCatch(k) ==
    /\ k \in DOMAIN imageFetches
    /\ imageFetches[k].response = Null
    /\ alertMessage' =
           <<IF imageFetches[k].kind = "encrypt"
             THEN "Encryption failed: " ELSE "Decryption failed: ", FetchError>>
    /\ encryptImageBtnDisabled' = FALSE
    /\ decryptImageBtnDisabled' = FALSE
    /\ imageFetches' = WithoutRequest(k)
    /\ UNCHANGED <<useCustomSboxForImage, selectedImageEncryptData, uploadedImageFile,
                   resultLabel>>
    /\ UNCHANGED <<storageVars, selectionVars, textInputPlain, resultVars, fetchVars,
                   displayVars, customVars>>
    /\ UNCHANGED <<modalVars, tableVars, exploreVars, compareVars>>

\* The text tab once the page has loaded with `item` in storage: the saved
\* table read back, K44 selected, nothing typed, nothing recorded.
TextInit(item) ==
    /\ customSboxData = item
    /\ savedCustomSbox = loadCustomSboxFromLocalStorage(item)
    /\ useCustomSboxForText = FALSE
    /\ selectedTextEncryptData = InitialIdx
    /\ selectedEncryptData = InitialIdx
    /\ textInputPlain = <<>>
    /\ cipherBytesData = <<>>
    /\ originalLengthData = <<>>
    /\ lastCipherHex = NoString
    /\ lastOriginalLength = Undefined
    /\ lastDecryptedText = NoString
    /\ encryptTextBtnDisabled = FALSE
    /\ decryptTextBtnDisabled = FALSE
    /\ encryptFetch = Null
    /\ decryptFetch = Null
    /\ outputLabel = "Output"
    /\ outputResult = OutputHint
    /\ alertMessage = NoAlert
    /\ uploads = [i \in UploadIds |-> IdleUpload]
    /\ statusTitle = ""
    /\ statusMessage = ""
    /\ customSboxResults = "none"
    /\ customOption = CustomOptionOf(loadCustomSboxFromLocalStorage(item))
    /\ clock = 0
    /\ useCustomSboxForImage = FALSE
    /\ selectedImageEncryptData = InitialIdx
    /\ uploadedImageFile = NoFile
    /\ encryptImageBtnDisabled = TRUE
    /\ decryptImageBtnDisabled = TRUE
    /\ imageFetches = <<>>
    /\ resultLabel = ""

\* The page loaded again: storage and the clock are what they were, every
\* request on its way is dropped, and the script starts afresh on the item
\* it finds in storage.
PageLoad ==
    /\ UNCHANGED <<customSboxData, clock>>
    /\ savedCustomSbox' = loadCustomSboxFromLocalStorage(customSboxData)
    /\ customOption' = CustomOptionOf(savedCustomSbox')
    /\ useCustomSboxForText' = FALSE
    /\ selectedTextEncryptData' = InitialIdx
    /\ selectedEncryptData' = InitialIdx
    /\ textInputPlain' = <<>>
    /\ cipherBytesData' = <<>>
    /\ originalLengthData' = <<>>
    /\ lastCipherHex' = NoString
    /\ lastOriginalLength' = Undefined
    /\ lastDecryptedText' = NoString
    /\ encryptTextBtnDisabled' = FALSE
    /\ decryptTextBtnDisabled' = FALSE
    /\ encryptFetch' = Null
    /\ decryptFetch' = Null
    /\ outputLabel' = "Output"
    /\ outputResult' = OutputHint
    /\ alertMessage' = NoAlert
    /\ uploads' = [i \in UploadIds |-> IdleUpload]
    /\ statusTitle' = ""
    /\ statusMessage' = ""
    /\ customSboxResults' = "none"
    /\ useCustomSboxForImage' = FALSE
    /\ selectedImageEncryptData' = InitialIdx
    /\ uploadedImageFile' = NoFile
    /\ encryptImageBtnDisabled' = TRUE
    /\ decryptImageBtnDisabled' = TRUE
    /\ imageFetches' = <<>>
    /\ resultLabel' = ""
    /\ uploadedCustomSbox' = Null
    /\ compareSboxSelector' = Undefined
    /\ sboxComparisonResults' = Null
    /\ UNCHANGED <<existingMetrics, comparisonHistory>>
    /\ currentData' = InitialIdx
    /\ inverseSBox' = InverseOfCandidate[InitialIdx]
    /\ inputPlain' = <<>>
    /\ outCipher' = Placeholder
    /\ outDec' = Placeholder
    /\ UNCHANGED <<modalVars, tableVars>>

\* The text tab untouched, storage empty.
TextIdle == TextInit(Null)

\* The table functions idle.
TableIdle ==
    /\ table = IdentityTable
    /\ inverse = <<>>
    /\ inverseFromArray = <<>>

InitExplore == ExploreInit /\ TableIdle /\ CompareIdle /\ TextIdle /\ StatusModalInit

NextExplore ==
    \/ \E idx \in CandidateIdx : SelectorChange(idx)
    \/ KeyArrowLeft
    \/ KeyArrowRight
    \/ \E txt \in TextsUpTo(MaxTextLen) : InputPlain(txt)

SpecExplore == InitExplore /\ [][NextExplore]_vars

\* ------------------------------------------- the table functions alone

\* Any table handed to the two derivations: permutations and non-permutations.
InitTable ==
    /\ table \in PermutationTables \cup InvalidTables
    /\ inverse = <<>>
    /\ inverseFromArray = <<>>
    /\ ExploreInit
    /\ StatusModalInit
    /\ CompareIdle
    /\ TextIdle

DeriveInverse ==
    /\ inverse = <<>>
    /\ inverse' = generateInverseSBox(table)
    /\ UNCHANGED <<table, inverseFromArray>>
    /\ UNCHANGED <<modalVars, exploreVars, compareVars, textVars>>
    /\ alertMessage' = NoAlert

DeriveInverseFromArray ==
    /\ inverseFromArray = <<>>
    /\ inverseFromArray' = generateInverseSBoxFromArray(table)
    /\ UNCHANGED <<table, inverse>>
    /\ UNCHANGED <<modalVars, exploreVars, compareVars, textVars>>
    /\ alertMessage' = NoAlert

NextTable == DeriveInverse \/ DeriveInverseFromArray

SpecTable == InitTable /\ [][NextTable]_vars

\* ---------------------------------------------- the comparison alone

\* A custom table has been uploaded and analysed; the catalog entry that will
\* be chosen carries any payload.
InitCompare ==
    /\ uploadedCustomSbox \in [metrics : CustomPayloads]
    /\ existingMetrics \in ExistingPayloads
    /\ compareSboxSelector = Undefined
    /\ sboxComparisonResults = Null
    /\ comparisonHistory = {}
    /\ ExploreInit
    /\ StatusModalInit
    /\ TableIdle
    /\ TextIdle

NextCompare == CompareSelectorChange \/ CompareClick

SpecCompare == InitCompare /\ [][NextCompare]_vars

\* --------------------------------------------- the comparison, fine values

\* Payloads whose SAC, LAP and DAP differ in the fifth decimal, which
\* toFixed(4) rounds away.
FineCustomPayloads ==
    [nonlinearity : {11200000},
     sac : {49000, 49996, 50004},
     bic : {49000},
     lap : {6250, 6251, 6254},
     dap : {1560, 1562},
     fixed_points : {0}]

FineExistingPayloads ==
    [NL : {11200000},
     SAC : {49000, 50000, 50004},
     BIC_NL : {10300000},
     BIC_SAC : {49000},
     LAP : {6249, 6250, 6300},
     DAP : {1560, 1564},
     DU : {400000},
     AD : {700000},
     TO : {0},
     CI : {0}]

InitRound ==
    /\ uploadedCustomSbox \in [metrics : FineCustomPayloads]
    /\ existingMetrics \in FineExistingPayloads
    /\ compareSboxSelector = Undefined
    /\ sboxComparisonResults = Null
    /\ comparisonHistory = {}
    /\ ExploreInit
    /\ StatusModalInit
    /\ TableIdle
    /\ TextIdle

SpecRound == InitRound /\ [][NextCompare]_vars

\* ------------------------------------------------- comparisons repeated

\* The tables uploaded between comparisons: two valid ones.
RepeatFiles == {CustomTable, SwapTable(5, 9)}

\* The candidates picked between comparisons.
RepeatChoices == {0, 2}

\* Uploads, selections, comparisons and reloads in any order; one upload at a
\* time, its item written.
InitRepeat == InitExplore

NextRepeat ==
    \/ \E file \in RepeatFiles : InFlight = {} /\ handleCustomSboxUpload(file)
    \/ \E i \in UploadIds : UploadServed(i)
    \/ \E i \in UploadIds : handleCustomSboxUploadResume(i, TRUE)
    \/ \E value \in RepeatChoices : CompareSelectorPick(value)
    \/ CompareClick
    \/ PageLoad

SpecRepeat == InitRepeat /\ [][NextRepeat]_vars

\* ----------------------------------------------------------- the text tab

\* The text tab used one request at a time: a button is clicked while no
\* request of the other kind is on its way.
InitText ==
    /\ \E item \in StoredItems : TextInit(item)
    /\ ExploreInit
    /\ StatusModalInit
    /\ TableIdle
    /\ CompareIdle

NextText ==
    \/ \E value \in TextChoices : TextEncryptSelectorChange(value)
    \/ TextEncryptSelectorCustom
    \/ \E txt \in TypedTexts \cup TypedCiphers : TextInput(txt)
    \/ PasteCopied
    \/ PasteDownloaded
    \/ (decryptFetch = Null /\ encryptTextEnhanced)
    \/ EncryptTextServed
    \/ encryptTextEnhancedResume
    \/ encryptTextEnhancedCatch
    \/ (encryptFetch = Null /\ decryptTextEnhanced)
    \/ DecryptTextServed
    \/ decryptTextEnhancedResume
    \/ decryptTextEnhancedCatch

SpecText == InitText /\ [][NextText]_vars

\* ------------------------------------------- the custom S-box, kept and cleared

\* What storage holds when the page is first loaded here: nothing, or a valid
\* table kept by an earlier visit.
KeptItems ==
    {item \in StoredItems \ {NotJson} : item = Null \/ IsBijective(item.sbox)}

InitCustom ==
    /\ \E item \in KeptItems : TextInit(item)
    /\ ExploreInit
    /\ StatusModalInit
    /\ TableIdle
    /\ CompareIdle

NextCustom ==
    \/ \E file \in UploadFiles : handleCustomSboxUpload(file)
    \/ \E i \in UploadIds : UploadServed(i)
    \/ \E i \in UploadIds, written \in BOOLEAN : handleCustomSboxUploadResume(i, written)
    \/ \E i \in UploadIds : handleCustomSboxUploadCatch(i)
    \/ \E written \in BOOLEAN : SaveCustomSboxClick(written)
    \/ ClearCustomSboxClick
    \/ PageLoad

SpecCustom == InitCustom /\ [][NextCustom]_vars

\* -------------------------------------------- the table a request goes out with

\* Both encryption tabs with the custom table coming and going: a text of
\* one letter, one ciphertext, one image, one more table uploaded.  A tab
\* sends one request at a time, and a request stays on its way until the
\* page is loaded again.
SourceTexts == {Repeat(65, 1), CipherHexOf(Pad(Repeat(65, 1)), 1)}

InitSource ==
    /\ \E item \in KeptItems : TextInit(item)
    /\ ExploreInit
    /\ StatusModalInit
    /\ TableIdle
    /\ CompareIdle

NextSource ==
    \/ \E value \in TextChoices : TextEncryptSelectorChange(value)
    \/ TextEncryptSelectorCustom
    \/ \E value \in TextChoices : ImageEncryptSelectorChange(value)
    \/ ImageEncryptSelectorCustom
    \/ ClearCustomSboxClick
    \/ (clock = 0 /\ InFlight = {} /\ handleCustomSboxUpload(SwapTable(5, 9)))
    \/ \E i \in UploadIds : UploadServed(i)
    \/ \E i \in UploadIds : handleCustomSboxUploadResume(i, TRUE)
    \/ PageLoad
    \/ \E txt \in SourceTexts : TextInput(txt)
    \/ (textInputPlain # <<>> /\ decryptFetch = Null /\ encryptTextEnhanced)
    \/ (textInputPlain # <<>> /\ encryptFetch = Null /\ decryptTextEnhanced)
    \/ \E file \in ImageFiles : (imageFetches = <<>> /\ ImageUploadChange(file))
    \/ \E kind \in {"encrypt", "decrypt"} : (imageFetches = <<>> /\ ImageClick(kind))

SpecSource == InitSource /\ [][NextSource]_vars

\* ------------------------------------------------------ overlapping requests

\* The text and image tabs with nothing held back: a second request may be
\* started while the first is on its way, and answers come in any order.
InitOverlap ==
    /\ TextIdle
    /\ ExploreInit
    /\ StatusModalInit
    /\ TableIdle
    /\ CompareIdle

ImageRequestIds == 1..MaxImageRequests

NextOverlap ==
    \/ \E txt \in SourceTexts : TextInput(txt)
    \/ encryptTextEnhanced
    \/ EncryptTextServed
    \/ encryptTextEnhancedResume
    \/ encryptTextEnhancedCatch
    \/ decryptTextEnhanced
    \/ DecryptTextServed
    \/ decryptTextEnhancedResume
    \/ decryptTextEnhancedCatch
    \/ \E file \in ImageFiles : ImageUploadChange(file)
    \/ \E kind \in {"encrypt", "decrypt"} : ImageClick(kind)
    \/ \E k \in ImageRequestIds : ImageServed(k)
    \/ \E k \in ImageRequestIds : ImageResume(k)
    \/ \E k \in ImageRequestIds : ImageCatch(k)

SpecOverlap == InitOverlap /\ [][NextOverlap]_vars

\* ------------------------------------------------------- requests that end

\* The two tabs used one after the other: a text request is started with no
\* image request on its way and the other way round, and the text is typed
\* between requests.  The two text requests may still overlap.
NextSettle ==
    \/ \E txt \in SourceTexts :
           encryptFetch = Null /\ decryptFetch = Null /\ TextInput(txt)
    \/ (imageFetches = <<>> /\ encryptTextEnhanced)
    \/ EncryptTextServed
    \/ encryptTextEnhancedResume
    \/ encryptTextEnhancedCatch
    \/ (imageFetches = <<>> /\ decryptTextEnhanced)
    \/ DecryptTextServed
    \/ decryptTextEnhancedResume
    \/ decryptTextEnhancedCatch
    \/ \E file \in ImageFiles : imageFetches = <<>> /\ ImageUploadChange(file)
    \/ \E kind \in {"encrypt", "decrypt"} :
           encryptFetch = Null /\ decryptFetch = Null /\ ImageClick(kind)
    \/ \E k \in ImageRequestIds : ImageServed(k)
    \/ \E k \in ImageRequestIds : ImageResume(k)
    \/ \E k \in ImageRequestIds : ImageCatch(k)

\* A fetch settles, with an answer or with an error, and the browser then
\* runs what waits for it: each kind of request keeps moving.
FetchesSettle ==
    /\ WF_vars(EncryptTextServed \/ encryptTextEnhancedResume)
    /\ WF_vars(DecryptTextServed \/ decryptTextEnhancedResume)
    /\ WF_vars(\E k \in ImageRequestIds : ImageServed(k) \/ ImageResume(k))

SpecSettle == InitOverlap /\ [][NextSettle]_vars /\ FetchesSettle

\* ------------------------------------------------------------ the claims

\* C1: in the exploration view, whenever the input field holds a text, the
\* decrypted pane shows exactly that text, whatever its characters.
C1_DoCryptoRoundTrip ==
    inputPlain # <<>> => outDec = inputPlain

\* The derived array inv is the two-sided inverse of forward, with all of its
\* 256 entries defined.
IsInverseOf(inv, forward) ==
    /\ DOMAIN inv = 0..(TableSize - 1)
    /\ \A i \in 0..(TableSize - 1) :
           /\ inv[i] \in 0..(TableSize - 1)
           /\ inv[forward[i]] = i
           /\ forward[inv[i]] = i

\* C2: for every table that is a permutation of 0..255, the array derived by
\* generateInverseSBox, and the one derived by generateInverseSBoxFromArray,
\* has all 256 entries defined and satisfies inverse[forward[i]] = i and
\* forward[inverse[i]] = i for every i in 0..255.
C2_InverseOfPermutation ==
    IsBijective(table) =>
        /\ inverse # <<>> => IsInverseOf(inverse, table)
        /\ inverseFromArray # <<>> => IsInverseOf(inverseFromArray, table)

\* C2 witness: both derivations have run on a permutation that is not its own
\* inverse, and the derived array sends forward[5] back to 5.
C2_Witness ==
    /\ IsBijective(table)
    /\ inverse # <<>>
    /\ inverseFromArray # <<>>
    /\ inverse # table
    /\ inverse[table[5]] = 5
    /\ inverseFromArray[table[5]] = 5

\* C3: for a table with a repeated value, a length other than 256 or a value
\* outside 0..255, no inverse is ever derived.
C3_NoInverseForInvalidTable ==
    ~IsBijective(table) => (inverse = <<>> /\ inverseFromArray = <<>>)

\* The ten metric keys of a metric payload, in the canonical order.
MetricKeys == <<"NL", "SAC", "BIC_NL", "BIC_SAC", "LAP", "DAP", "DU", "AD", "TO", "CI">>

\* The verdict a metric's direction asks for on the pair (a, b).
DirectionVerdict(direction, a, b) ==
    CASE direction = "HigherIsBetter" ->
            IF a > b THEN "ABetter" ELSE IF b > a THEN "BBetter" ELSE "Tie"
      [] direction = "LowerIsBetter" ->
            IF a < b THEN "ABetter" ELSE IF b < a THEN "BBetter" ELSE "Tie"
      [] direction = "CloserToTarget" ->
            IF Abs(a - Target) < Abs(b - Target) THEN "ABetter"
            ELSE IF Abs(b - Target) < Abs(a - Target) THEN "BBetter" ELSE "Tie"

\* The direction a row's compareType stands for.
DirectionOf(compareType) ==
    CASE compareType = "higher" -> "HigherIsBetter"
      [] compareType = "lower" -> "LowerIsBetter"
      [] compareType = "closer_to_0.5" -> "CloserToTarget"

\* The verdict a rendered row shows: the side carrying the trophy, if any.
RowVerdict(r) ==
    IF r.customBetter THEN "ABetter" ELSE IF r.existingBetter THEN "BBetter" ELSE "Tie"

Compared == sboxComparisonResults # Null
Rows == sboxComparisonResults.rows
Summary == sboxComparisonResults.summary

\* C4: every comparison row marks the side its metric's direction favours on
\* the two values the row shows: the strictly greater one under HigherIsBetter,
\* the strictly smaller one under LowerIsBetter, the one strictly closer to
\* the target under CloserToTarget; on equal values or equal deviations it
\* marks neither side, and it never marks both.
C4_CompareOneFollowsDirection ==
    Compared =>
        \A k \in DOMAIN Rows :
            LET r == Rows[k].row
            IN /\ ~(r.customBetter /\ r.existingBetter)
               /\ RowVerdict(r) =
                      DirectionVerdict(DirectionOf(r.compareType), r.customVal, r.existingVal)

\* C4 witness: NL 112 vs 100 shown as ABetter, SAC 0.49 vs 0.52 as ABetter,
\* LAP 0.0625 vs 0.05 as BBetter, and a DAP tie with no side marked.
C4_Witness ==
    /\ Compared
    /\ Rows[1].row.customVal = 11200000 /\ Rows[1].row.existingVal = 10000000
    /\ RowVerdict(Rows[1].row) = "ABetter"
    /\ Rows[2].row.customVal = 49000 /\ Rows[2].row.existingVal = 52000
    /\ RowVerdict(Rows[2].row) = "ABetter"
    /\ Rows[4].row.customVal = 6250 /\ Rows[4].row.existingVal = 5000
    /\ RowVerdict(Rows[4].row) = "BBetter"
    /\ Rows[5].row.customVal = Rows[5].row.existingVal
    /\ RowVerdict(Rows[5].row) = "Tie"

\* The verdicts of the metrics the summary goes through, by direction, on the
\* payload values themselves.
SummaryVerdicts ==
    LET cm == uploadedCustomSbox.metrics
        em == existingMetrics
    IN << DirectionVerdict("HigherIsBetter", cm.nonlinearity, em.NL),
          DirectionVerdict("CloserToTarget", cm.sac, em.SAC),
          DirectionVerdict("LowerIsBetter", cm.lap, em.LAP),
          DirectionVerdict("LowerIsBetter", cm.dap, em.DAP),
          DirectionVerdict("LowerIsBetter", cm.fixed_points, OrZero(em.TO)) >>

CountOf(verdicts, v) == Cardinality({k \in DOMAIN verdicts : verdicts[k] = v})

AsCustom(em) ==
    [nonlinearity |-> em.NL, sac |-> em.SAC, bic |-> em.BIC_SAC, lap |-> em.LAP,
     dap |-> em.DAP, fixed_points |-> OrZero(em.TO)]

AsExisting(cm, em) ==
    [em EXCEPT !.NL = cm.nonlinearity, !.SAC = cm.sac, !.BIC_SAC = cm.bic,
               !.LAP = cm.lap, !.DAP = cm.dap, !.TO = cm.fixed_points]

SwapOverall(o) == IF o = "custom" THEN "existing" ELSE IF o = "existing" THEN "custom" ELSE o

\* C6: comparing the same two values the other way round exchanges the marks
\* of every row (a tie stays a tie), and comparing the two payloads the other
\* way round exchanges the summary's counters and its overall outcome (a
\* balance stays a balance).
C6_ComparatorSymmetry ==
    Compared =>
        /\ \A k \in DOMAIN Rows :
               LET r == Rows[k].row
                   swapped == renderComparisonRow(r.label, r.existingVal, r.customVal,
                                                  r.compareType)
               IN /\ swapped.customBetter = r.existingBetter
                  /\ swapped.existingBetter = r.customBetter
        /\ LET swapped == generateComparisonSummary(
                              AsCustom(existingMetrics),
                              AsExisting(uploadedCustomSbox.metrics, existingMetrics))
           IN /\ swapped.customWins = Summary.existingWins
              /\ swapped.existingWins = Summary.customWins
              /\ swapped.overall = SwapOverall(Summary.overall)

\* C6 witness: a comparison with a decided row, a tied row and a decided
\* overall outcome, so that the exchange has something to exchange.
C6_Witness ==
    /\ Compared
    /\ \E k \in DOMAIN Rows : Rows[k].row.customBetter
    /\ \E k \in DOMAIN Rows : Rows[k].row.existingBetter
    /\ \E k \in DOMAIN Rows : RowVerdict(Rows[k].row) = "Tie"
    /\ Summary.overall = "existing"

KeyOfCustomField(field) ==
    CASE field = "nonlinearity" -> "NL"
      [] field = "sac" -> "SAC"
      [] field = "bic" -> "BIC_SAC"
      [] field = "lap" -> "LAP"
      [] field = "dap" -> "DAP"
      [] OTHER -> "none"

\* C8: every comparison row and every summary step compares the two
\* candidates' values of one and the same metric key, one of the ten.
C8_SameMetricKey ==
    Compared =>
        LET steps == SummarySteps(uploadedCustomSbox.metrics, existingMetrics)
            keys == {MetricKeys[k] : k \in DOMAIN MetricKeys}
        IN /\ \A k \in DOMAIN Rows :
                  /\ Rows[k].existingKey \in keys
                  /\ KeyOfCustomField(Rows[k].customKey) = Rows[k].existingKey
           /\ \A k \in DOMAIN steps :
                  /\ steps[k].existingKey \in keys
                  /\ KeyOfCustomField(steps[k].customKey) = steps[k].existingKey


\* The original length known to the page when the decrypt button is clicked:
\* the number n of a first line "LENGTH:n" of the input; with no such line,
\* the number the hidden field remembers from the last encryption; else none.
LengthsKnown == 0..(2 * MaxPlainLen)
KnownLength ==
    LET typed == trim(textInputPlain)
        inHeader == {n \in LengthsKnown :
                        startsWith(typed, LengthTag \o DecString(n) \o <<10>>)}
        inField == {n \in LengthsKnown \ {0} : originalLengthData = DecString(n)}
    IN IF startsWith(typed, LengthTag)
       THEN IF inHeader # {} THEN Num(SetMax(inHeader)) ELSE Null
       ELSE IF inField # {} THEN Num(SetMax(inField)) ELSE Null

\* The answer `data` follows the two padding policies on `request`, for a
\* request whose table is resolved.
FollowsPaddingPolicies(request, data) ==
    LET source == resolve(request.sbox_id, request.custom_sbox)
        padded == [k \in 1..Len(request.cipher_bytes) |->
                      source.backward[request.cipher_bytes[k]]]
        n == Len(padded)
        claimed == padded[n]
        invalid ==
            \/ claimed = 0
            \/ claimed > BlockSize
            \/ \E k \in 1..n : k > n - claimed /\ padded[k] # claimed
    IN source.ok =>
          IF request.original_length # Null
          THEN /\ data.success
               /\ \A k \in DOMAIN data.plaintext : data.plaintext[k] = padded[k]
               /\ request.original_length.num <= n
                      => Len(data.plaintext) = request.original_length.num
          ELSE IF invalid
          THEN ~data.success /\ data.error = "InvalidPadding"
          ELSE /\ data.success
               /\ data.plaintext = SubSeq(padded, 1, n - claimed)

C9_Step ==
    /\ (decryptFetch = Null /\ decryptFetch' # Null)
           => decryptFetch'.request.original_length = KnownLength
    /\ (decryptFetch # Null /\ decryptFetch' # Null
            /\ decryptFetch.response = Null /\ decryptFetch'.response # Null)
           => FollowsPaddingPolicies(decryptFetch.request, decryptFetch'.response)

\* C9: every decrypt request sent by decryptTextEnhanced carries the original
\* length the page knows at the click, and null when it knows none; and every
\* answer to a decrypt request follows the two padding policies: with an
\* original length the decoded bytes cut to that length, without one the pad
\* length read from the last byte, InvalidPadding when that byte is 0, is
\* more than the block size, or is not repeated over the trailing bytes.
C9_DecodePaddingPolicies == [][C9_Step]_vars

\* C9 witness: a decrypt request that went out with a null original length
\* has been answered InvalidPadding.
C9_Witness ==
    /\ decryptFetch # Null
    /\ decryptFetch.request.original_length = Null
    /\ decryptFetch.response # Null
    /\ ~decryptFetch.response.success
    /\ decryptFetch.response.error = "InvalidPadding"

\* C10: every answer to an encrypt request holds the plaintext padded to the
\* next multiple of the block size, a whole extra block when the length is
\* one already, every pad byte equal to the pad length, so at least one block
\* and at least 32 hex digits, which decryptTextEnhanced takes for a
\* ciphertext and reads back to the same bytes; and a decrypt request without
\* original length for the encoding of a plaintext under the same table is
\* answered with that plaintext.
C10_PaddingLaw ==
    /\ (encryptFetch # Null /\ encryptFetch.response # Null
            /\ encryptFetch.response.success) =>
           LET request == encryptFetch.request
               data == encryptFetch.response
               source == resolve(request.sbox_id, request.custom_sbox)
               plain == Utf8Encode(request.plaintext)
               m == Len(data.cipher_bytes)
               padLength == m - Len(plain)
               parsed == ParseCipherInput(data.cipher_hex, <<>>)
           IN /\ m = ((Len(plain) \div BlockSize) + 1) * BlockSize
              /\ m >= BlockSize
              /\ padLength \in 1..BlockSize
              /\ \A k \in 1..m :
                     source.backward[data.cipher_bytes[k]] =
                         (IF k <= Len(plain) THEN plain[k] ELSE padLength)
              /\ data.original_length = Len(plain)
              /\ data.padded_length = m
              /\ parsed.isHexInput
              /\ parsed.cipherBytes = data.cipher_bytes
    /\ (decryptFetch # Null /\ decryptFetch.response # Null
            /\ decryptFetch.request.original_length = Null) =>
           LET request == decryptFetch.request
               data == decryptFetch.response
               source == resolve(request.sbox_id, request.custom_sbox)
           IN source.ok =>
                  \A txt \in TypedTexts :
                      request.cipher_bytes = encode(Utf8Encode(txt), source.forward).cipherBytes
                          => (data.success /\ data.plaintext = Utf8Encode(txt))

\* C10 witness: a whole block of plaintext came back from a two-block
\* ciphertext decrypted without original length.
C10_Witness ==
    /\ decryptFetch # Null
    /\ decryptFetch.response # Null
    /\ decryptFetch.request.original_length = Null
    /\ Len(decryptFetch.request.cipher_bytes) = 2 * BlockSize
    /\ decryptFetch.response.success
    /\ decryptFetch.response.plaintext = Repeat(65, BlockSize)

\* C11: encode is total.  A click on Encrypt sends the text of the input field
\* to the service whatever that text is, the empty text included, and the
\* service answers every text whose table it can resolve with a ciphertext
\* and an original length.
C11_EncodeTotal ==
    [][/\ encryptTextEnhanced =>
              /\ encryptFetch' # Null
              /\ encryptFetch'.request.plaintext = textInputPlain
       /\ EncryptTextServed =>
              LET request == encryptFetch.request
                  data == encryptFetch'.response
              IN resolve(request.sbox_id, request.custom_sbox).ok =>
                     /\ data.success
                     /\ Len(data.cipher_bytes) > 0
                     /\ data.original_length = Len(Utf8Encode(request.plaintext))]_vars

\* The requests on their way, of every kind.
RequestsInFlight ==
    {f.request : f \in {encryptFetch, decryptFetch} \ {Null}}
        \cup {imageFetches[k].request : k \in DOMAIN imageFetches}

CatalogIds == {candidatesData[idx].id : idx \in CandidateIdx}

\* C12: the table a request goes out with is a tagged choice.  Every text or
\* image request on its way carries either the id of a catalog candidate and
\* no inline table, or the id 'custom' and an inline table.
C12_SboxSourceTagged ==
    \A request \in RequestsInFlight :
        \/ request.sbox_id \in CatalogIds /\ request.custom_sbox = Null
        \/ request.sbox_id = "custom" /\ request.custom_sbox # Null

\* C12 witness: an image request went out with the custom table, the custom
\* table was cleared after it, and a text request went out with a catalog id.
C12_Witness ==
    /\ savedCustomSbox = Null
    /\ \E k \in DOMAIN imageFetches : imageFetches[k].request.sbox_id = "custom"
    /\ encryptFetch # Null
    /\ encryptFetch.request.sbox_id \in CatalogIds
    /\ uploads[1].pc = "done"

\* A step that registers a custom table: an upload that ends, or a click on
\* the save button.
RegisterStep ==
    \/ \E i \in UploadIds, written \in BOOLEAN : handleCustomSboxUploadResume(i, written)
    \/ \E written \in BOOLEAN : SaveCustomSboxClick(written)

\* C13: a registration under an id that exists is rejected and the existing
\* registration is left untouched.  With a custom table in storage, the end
\* of a further upload and a click on the save button leave the stored item
\* and the saved table as they were.
C13_DuplicateIdRejected ==
    [][(customSboxData # Null /\ RegisterStep)
           => UNCHANGED <<customSboxData, savedCustomSbox>>]_vars

\* C14: clearing is a no-op when no custom table is registered.  A click on
\* the clear button with nothing in storage and no saved table leaves all
\* state as it was, the candidates selected for text and image encryption and
\* the two custom-use flags included.
C14_ClearAbsentNoOp ==
    [][(customSboxData = Null /\ savedCustomSbox = Null /\ ClearCustomSboxClick)
           => UNCHANGED <<tableVars, exploreVars, compareVars, textVars>>]_vars

\* C15: storage holds at most one custom candidate, of the shape name, table,
\* metrics, uploadedAt.  The one item 'customSboxData' is absent or a record
\* of exactly the four fields name, sbox (the table), metrics, uploadedAt.
C15_StoredShape ==
    \/ customSboxData = Null
    \/ DOMAIN customSboxData = {"name", "sbox", "metrics", "uploadedAt"}

\* C15 witness: the item was written by an upload of this page, after an
\* earlier upload, and a later upload was rejected.
C15_Witness ==
    /\ customSboxData # Null
    /\ customSboxData.uploadedAt >= 1
    /\ customSboxData.metrics # Null
    /\ \E i \in UploadIds : uploads[i].pc = "done" /\ uploads[i].title = "Error!"

\* Upload j was sent while upload i was on its way.
Overlapping(i, j) == i # j /\ i \in uploads[j].with

\* C16: of two overlapping registrations one wins and the other is told it
\* lost.  Two uploads of which one was sent while the other was on its way do
\* not both end with the status 'S-Box Valid!'.
C16_OneOverlappingUploadWins ==
    \A i, j \in UploadIds :
        (/\ uploads[i].pc = "done"
         /\ uploads[j].pc = "done"
         /\ Overlapping(i, j))
            => ~(uploads[i].title = "S-Box Valid!" /\ uploads[j].title = "S-Box Valid!")

\* C19: a rejected upload surfaces the reason as given and changes nothing
\* else.  When upload i ends on an answer that is not a success, the status
\* message is the answer's error text, and the uploaded table, the saved
\* table, the stored item and the selectors' custom option stay as they were.
C19_RejectedUploadKeepsState ==
    [][\A i \in UploadIds :
           (/\ uploads[i].pc = "answered"
            /\ ~uploads[i].response.success
            /\ uploads'[i].pc = "done")
               => /\ statusMessage' = uploads[i].response.error
                  /\ uploads'[i].message = uploads[i].response.error
                  /\ UNCHANGED <<uploadedCustomSbox, savedCustomSbox, customSboxData,
                                 customOption>>]_vars

\* C19 witness: a table with a repeated value was rejected after another
\* table had been accepted and saved; the status line shows the reason.
C19_Witness ==
    /\ \E i \in UploadIds :
           /\ uploads[i].pc = "done"
           /\ uploads[i].title = "Error!"
           /\ uploads[i].message = UploadResponse(DuplicateTable).error
           /\ statusMessage = uploads[i].message
    /\ uploadedCustomSbox # Null
    /\ savedCustomSbox # Null
    /\ customSboxData # Null
    /\ customOption # NoOption

\* C17: overlapping text requests do not interfere.  What a request reports
\* when its answer arrives is what it would report had it run alone: a
\* ciphertext is shown under the label 'Ciphertext (Hex)' and a decryption,
\* or its failure, under the label 'Decrypted Plaintext', whatever other
\* request was started or answered in between.
C17_OverlapNoInterference ==
    [][/\ (encryptTextEnhancedResume /\ encryptFetch.response.success)
              => outputLabel' = "Ciphertext (Hex)"
       /\ decryptTextEnhancedResume
              => outputLabel' = "Decrypted Plaintext"]_vars

fetchServerStatus == statusFetches' = statusFetches + 1

\* The Server Status button: the modal shown, the status fetched at once, and
\* a new interval timer set, its id kept in statusRefreshInterval over
\* whatever id was there.
ServerStatusBtnClick ==
    /\ intervalsCreated < MaxIntervals
    /\ statusFetches < MaxStatusFetches
    /\ serverStatusModalHidden' = FALSE
    /\ fetchServerStatus
    /\ intervalsCreated' = intervalsCreated + 1
    /\ activeIntervals' = activeIntervals \cup {intervalsCreated + 1}
    /\ statusRefreshInterval' = intervalsCreated + 1
    /\ alertMessage' = NoAlert
    /\ UNCHANGED <<statusContentShown, navStatusIndicator>>
    /\ UNCHANGED <<tableVars, exploreVars, compareVars, textVars>>

\* closeStatusModal: the modal hidden, and the timer whose id the script
\* holds, if it holds one, cleared and forgotten.
closeStatusModal ==
    /\ serverStatusModalHidden' = TRUE
    /\ IF statusRefreshInterval # NoInterval
       THEN /\ activeIntervals' = activeIntervals \ {statusRefreshInterval}
            /\ statusRefreshInterval' = NoInterval
       ELSE UNCHANGED <<activeIntervals, statusRefreshInterval>>
    /\ alertMessage' = NoAlert
    /\ UNCHANGED <<intervalsCreated, statusFetches, statusContentShown, navStatusIndicator>>
    /\ UNCHANGED <<tableVars, exploreVars, compareVars, textVars>>

\* The close button and the backdrop: both call closeStatusModal whatever
\* the state of the modal.
CloseStatusBtnClick == closeStatusModal
ServerStatusBackdropClick == closeStatusModal

\* The Escape key, which closes the modal only while it is shown.
StatusEscapeKeydown == ~serverStatusModalHidden /\ closeStatusModal

\* An interval timer the browser runs fires: fetchServerStatus is called.
StatusIntervalTick(id) ==
    /\ id \in activeIntervals
    /\ statusFetches < MaxStatusFetches
    /\ fetchServerStatus
    /\ alertMessage' = NoAlert
    /\ UNCHANGED <<serverStatusModalHidden, statusRefreshInterval, activeIntervals,
                   intervalsCreated, statusContentShown, navStatusIndicator>>
    /\ UNCHANGED <<tableVars, exploreVars, compareVars, textVars>>

\* The manual refresh button inside the modal.
RefreshStatusBtnClick ==
    /\ ~serverStatusModalHidden
    /\ statusFetches < MaxStatusFetches
    /\ fetchServerStatus
    /\ alertMessage' = NoAlert
    /\ UNCHANGED <<serverStatusModalHidden, statusRefreshInterval, activeIntervals,
                   intervalsCreated, statusContentShown, navStatusIndicator>>
    /\ UNCHANGED <<tableVars, exploreVars, compareVars, textVars>>

\* fetchServerStatus after its awaits: on success the content panel replaces
\* the loading panel and the navbar indicator turns emerald; an answer
\* without success changes nothing.
fetchServerStatusResume(success) ==
    /\ statusFetches > 0
    /\ statusFetches' = statusFetches - 1
    /\ IF success
       THEN statusContentShown' = TRUE /\ navStatusIndicator' = "bg-emerald-400"
       ELSE UNCHANGED <<statusContentShown, navStatusIndicator>>
    /\ alertMessage' = NoAlert
    /\ UNCHANGED <<serverStatusModalHidden, statusRefreshInterval, activeIntervals,
                   intervalsCreated>>
    /\ UNCHANGED <<tableVars, exploreVars, compareVars, textVars>>

\* fetchServerStatus when the request throws: the navbar indicator turns red.
fetchServerStatusCatch ==
    /\ statusFetches > 0
    /\ statusFetches' = statusFetches - 1
    /\ navStatusIndicator' = "bg-red-400"
    /\ alertMessage' = NoAlert
    /\ UNCHANGED <<serverStatusModalHidden, statusRefreshInterval, activeIntervals,
                   intervalsCreated, statusContentShown>>
    /\ UNCHANGED <<tableVars, exploreVars, compareVars, textVars>>

InitStatus == InitExplore

NextStatus ==
    \/ ServerStatusBtnClick
    \/ CloseStatusBtnClick
    \/ ServerStatusBackdropClick
    \/ StatusEscapeKeydown
    \/ \E id \in 1..MaxIntervals : StatusIntervalTick(id)
    \/ RefreshStatusBtnClick
    \/ \E success \in BOOLEAN : fetchServerStatusResume(success)
    \/ fetchServerStatusCatch

SpecStatus == InitStatus /\ [][NextStatus]_vars

\* The candidates the text and image selectors offer.
OfferedIds == CatalogIds \cup groupCustom

ReferenceIds ==
    {candidatesData[i].id : i \in {j \in CandidateIdx :
        candidatesData[j].type \in {"standard", "proposed"}}}

\* C21 as stated: two display groups.  Every offered candidate is in exactly
\* one of the reference and the exploratory group; the reference group holds
\* the standard and proposed candidates and the exploratory group every
\* other one, the custom candidate included.
C21_TwoDisplayGroups ==
    /\ populateSelector.groupRef = ReferenceIds
    /\ populateSelector.groupGen = OfferedIds \ ReferenceIds
    /\ populateSelector.groupRef \cap populateSelector.groupGen = {}

\* C21 amended: the catalog candidates are split over the reference group
\* (standard, proposed) and the exploratory group (the rest), the custom
\* candidate has a third group of its own, and every offered candidate is in
\* exactly one of the three.
C21_ThreeDisplayGroups ==
    /\ populateSelector.groupRef = ReferenceIds
    /\ populateSelector.groupGen = CatalogIds \ ReferenceIds
    /\ groupCustom = OfferedIds \ CatalogIds
    /\ \A id \in OfferedIds :
           Cardinality({g \in {"ref", "gen", "custom"} :
               \/ g = "ref" /\ id \in populateSelector.groupRef
               \/ g = "gen" /\ id \in populateSelector.groupGen
               \/ g = "custom" /\ id \in groupCustom}) = 1

\* C21 witness: a custom table was uploaded and is offered by the selectors.
C21_Witness ==
    /\ customOption # NoOption
    /\ savedCustomSbox # Null
    /\ \E i \in UploadIds : uploads[i].pc = "done" /\ uploads[i].title = "S-Box Valid!"

\* The inverse tables of every table an encryption can have used.
KnownBackwards ==
    {CatalogBackward[idx] : idx \in CandidateIdx}
        \cup {InlineBackward[t] : t \in ValidInlineTables}

\* The original lengths of the plaintexts whose encryption gives cipherBytes:
\* under any table, what is left once a well-formed padding is taken off.
ProducedLengths(cipherBytes) ==
    {Len(decode(cipherBytes, backward, Null).plaintext) :
        backward \in {b \in KnownBackwards : decode(cipherBytes, b, Null).ok}}

\* C22: the original length sent with a decrypt request is null or the
\* original length of the plaintext whose encryption produced the ciphertext
\* sent with it; a length remembered from the encryption of another
\* ciphertext is never sent.
C22_LengthBelongsToCiphertext ==
    decryptFetch # Null =>
        LET request == decryptFetch.request
        IN \/ request.original_length = Null
           \/ request.original_length.num \in ProducedLengths(request.cipher_bytes)

\* The table the text tab has selected now, as the service resolves it.
SelectedTextSource == resolve(TextSboxChoice.sbox_id, TextSboxChoice.custom_sbox)

\* C23: stored cipher data belongs to the selected text S-box.  Whenever the
\* hidden fields cipherBytesData and originalLengthData hold something, the
\* bytes are the encryption, under the table selected now, of a plaintext of
\* the stored length.
C23_StoredCipherUnderSelection ==
    cipherBytesData # <<>> =>
        /\ SelectedTextSource.ok
        /\ LET plain == decode(cipherBytesData, SelectedTextSource.backward, Null)
           IN /\ plain.ok
              /\ originalLengthData = DecString(Len(plain.plaintext))

\* The side a row marks and the side the summary gives the point to, for the
\* metric shown under `label`.
RowWinner(label) ==
    LET k == CHOOSE j \in DOMAIN Rows : Rows[j].row.label = label
    IN IF Rows[k].row.customBetter THEN "custom"
       ELSE IF Rows[k].row.existingBetter THEN "existing" ELSE "none"

SummaryWinner(label) ==
    IF \E j \in DOMAIN Summary.details : Summary.details[j].metric = label
    THEN LET k == CHOOSE j \in DOMAIN Summary.details : Summary.details[j].metric = label
         IN Summary.details[k].winner
    ELSE "none"

\* C24: the rows and the summary agree.  For each of Nonlinearity, SAC, LAP,
\* DAP and Fixed Points the side marked by the row, fed the values rounded to
\* four decimals, is the side the summary counts for, fed the values as they
\* are; a tie in one is a tie in the other.
C24_RowsAgreeWithSummary ==
    Compared =>
        \A label \in {"Nonlinearity", "SAC", "LAP", "DAP", "Fixed Points"} :
            RowWinner(label) = SummaryWinner(label)

\* C25: the inverse table in use is that of the candidate displayed.  In every
\* state after the page has loaded, inverseSBox is the inverse of
\* currentData.sbox, so what doCrypto decodes with belongs to the table it
\* encodes with.
C25_InverseOfDisplayed ==
    IsInverseOf(inverseSBox, candidatesData[currentData].sbox)

\* C25 witness: another candidate than the one selected on load is displayed,
\* reached by the arrow keys or the selector, with a text typed.
C25_Witness ==
    /\ currentData # InitialIdx
    /\ candidatesData[currentData].sbox # candidatesData[InitialIdx].sbox
    /\ inputPlain # <<>>
    /\ outDec # Placeholder

\* C26: the saved custom table in memory is the one in storage.  After any
\* page load, upload, save and clear, a failed write included, savedCustomSbox
\* and the item under 'customSboxData' are both absent or the same record.
C26_SavedEqualsStored ==
    savedCustomSbox = customSboxData

\* A request that has just been sent with the saved custom table.
SentWithCustom(request) ==
    /\ request.sbox_id = "custom"
    /\ request.custom_sbox = savedCustomSbox.sbox

\* C27: the custom-use flags go with a saved custom table.  In every state
\* useCustomSboxForText, and likewise useCustomSboxForImage, is true only
\* with savedCustomSbox non-null, and while it is false the candidate
\* selected in that tab is a catalog entry; and a request sent while a flag
\* is true goes out with the saved custom table, never with a fallback.
C27_CustomFlagsImplySaved ==
    /\ [](/\ useCustomSboxForText => savedCustomSbox # Null
          /\ useCustomSboxForImage => savedCustomSbox # Null
          /\ ~useCustomSboxForText => selectedTextEncryptData \in CandidateIdx
          /\ ~useCustomSboxForImage => selectedImageEncryptData \in CandidateIdx)
    /\ [][/\ (useCustomSboxForText /\ encryptFetch = Null /\ encryptFetch' # Null)
                 => SentWithCustom(encryptFetch'.request)
          /\ (useCustomSboxForText /\ decryptFetch = Null /\ decryptFetch' # Null)
                 => SentWithCustom(decryptFetch'.request)
          /\ (useCustomSboxForImage /\ Len(imageFetches') > Len(imageFetches))
                 => SentWithCustom(imageFetches'[Len(imageFetches')].request)]_vars

\* C27 witness: the custom option is selected in the text tab and a text
\* request is on its way with the custom table, while the image tab is on a
\* catalog candidate other than the one selected on load.
C27_Witness ==
    /\ useCustomSboxForText
    /\ savedCustomSbox # Null
    /\ encryptFetch # Null
    /\ encryptFetch.request.sbox_id = "custom"
    /\ ~useCustomSboxForImage
    /\ selectedImageEncryptData \in CandidateIdx \ {InitialIdx}

\* What the hidden length field may hold from an earlier encryption: nothing,
\* or the decimal digits of a length.
RememberedLengths == {NoString} \cup {DecString(n) : n \in {1, MaxPlainLen + 1}}

\* C28: the downloaded file round-trips through the decrypt parser.  With a
\* ciphertext of even length, at least 32 digits, and an original length
\* n >= 1 to download, the file "LENGTH:n", newline, "HEX:h" is read by
\* decryptTextEnhanced as a hex ciphertext of original length n whose bytes,
\* written as hex again, are h, whatever length the hidden field remembers;
\* and a Decrypt click on the pasted file sends these bytes with this length.
C28_DownloadRoundTrip ==
    /\ [](( /\ Truthy(lastCipherHex)
            /\ lastOriginalLength >= 1
            /\ Len(lastCipherHex) % 2 = 0
            /\ Len(lastCipherHex) >= MinCipherHexLength ) =>
           \A lengthField \in RememberedLengths :
               LET parsed == ParseCipherInput(DownloadedFile, lengthField)
               IN /\ ~parsed.empty
                  /\ parsed.isHexInput
                  /\ parsed.originalLength = Num(lastOriginalLength)
                  /\ Len(parsed.cipherBytes) = Len(lastCipherHex) \div 2
                  /\ \A k \in DOMAIN parsed.cipherBytes : parsed.cipherBytes[k] \in 0..255
                  /\ BytesToHex(parsed.cipherBytes) = toUpperCase(lastCipherHex))
    /\ [][( /\ decryptFetch = Null
            /\ decryptFetch' # Null
            /\ Truthy(lastCipherHex)
            /\ lastOriginalLength >= 1
            /\ textInputPlain = DownloadedFile ) =>
              /\ decryptFetch'.request.original_length = Num(lastOriginalLength)
              /\ BytesToHex(decryptFetch'.request.cipher_bytes) = lastCipherHex]_vars

\* C28 witness: a downloaded file with a two-digit length has been pasted and
\* sent for decryption after a change of selection emptied the hidden field.
C28_Witness ==
    /\ Truthy(lastCipherHex)
    /\ lastOriginalLength >= 10
    /\ originalLengthData = NoString
    /\ textInputPlain = DownloadedFile
    /\ decryptFetch # Null
    /\ decryptFetch.request.original_length = Num(lastOriginalLength)

\* The alerts with which the two text handlers refuse an input before any
\* request is made.
RefusalAlerts ==
    {<<"Please enter text to encrypt!">>,
     <<"Masukkan ciphertext hex untuk didekripsi!">>,
     <<"Input tidak valid sebagai ciphertext!">>}

\* A step that ends a text request without success: the service reported a
\* failure, or the request threw.
EndsUnsuccessfully(fetch, fetchAfter) ==
    /\ fetch # Null
    /\ fetchAfter = Null
    /\ (fetch.response = Null \/ ~fetch.response.success)

\* C29: an encrypt or decrypt attempt that does not succeed leaves the
\* recorded results alone.  A click refused before the request, an answer
\* reporting failure and a request that throws all keep cipherBytesData,
\* originalLengthData, lastCipherHex, lastOriginalLength and
\* lastDecryptedText as they were.
C29_FailedAttemptKeepsResults ==
    [][( \/ alertMessage' \in RefusalAlerts
         \/ EndsUnsuccessfully(encryptFetch, encryptFetch')
         \/ EndsUnsuccessfully(decryptFetch, decryptFetch') )
           => UNCHANGED resultVars]_vars

\* C29 witness: a decryption has just failed while the results of an earlier
\* encryption are on record.
C29_Witness ==
    /\ alertMessage # NoAlert
    /\ alertMessage[1] = "Decryption failed: "
    /\ decryptFetch = Null
    /\ Truthy(lastCipherHex)
    /\ cipherBytesData # <<>>
    /\ lastOriginalLength >= 1

\* C30: the server status refreshes itself only while the modal is open.
\* After any sequence of open, close, backdrop-click and Escape events the
\* browser runs at most one refresh interval timer, and none while the modal
\* is hidden.
C30_RefreshOnlyWhileOpen ==
    /\ Cardinality(activeIntervals) <= 1
    /\ serverStatusModalHidden => activeIntervals = {}
====
